---- MODULE Spec2Model ----
(***************************************************************************)
(* Outbound dispatch, manual retry, status ingestion and inbound           *)
(* normalization of the WhatsApp integration (PhoneNumber, Message,        *)
(* Contact, the official-API webhook, the WAHA webhook).                   *)
(*                                                                         *)
(* The database is the sequence `messages` of Message rows (row i has      *)
(* primary key i), the sequence `contacts` of Contact rows, the sequence   *)
(* `templates` of Template rows and the single PhoneNumber row `phone`.    *)
(* Every request                                                           *)
(* handler is one action; `last` records what the handler that ran last    *)
(* returned and the saves and HTTP requests it made, in order.             *)
(***************************************************************************)
EXTENDS Naturals, Sequences, FiniteSets, TLC

VARIABLES phone, messages, contacts, last, templates, procs

vars == <<phone, messages, contacts, last, templates, procs>>

\* ------------------------------------------------------------------ bounds

\* Rows the Message table may hold.
MaxMessages == 1

\* Rows the Message table may hold where several messages are retried at
\* once.
MaxSelected == 2

\* --------------------------------------------------------------- constants

\* Python's None for a nullable column or an absent dictionary key.
None == "None"

\* null=True DateTimeField delivered_at / read_at left unset.
NoTime == 0

STATUS_CHOICES == {"pending", "received", "sent", "delivered", "read", "failed"}

MESSAGE_TYPE_CHOICES ==
  {"text", "image", "audio", "video", "document", "location", "template", "button",
   "interactive"}

\* Ids a provider hands out (response bodies, webhook payloads).
ProviderIds == {"wamid.1", "wamid.2"}

\* default=uuid.uuid4: a fresh value per created row.
uuid4(pk) == "uuid-" \o ToString(pk)

\* ------------------------------------------------------------ PhoneNumber

\* A PhoneNumber row: its api_type, the active flag and which credential
\* columns are filled in (TRUE) or blank (FALSE).  business_account_id is
\* blank unless a specification fills it in.
PhoneConfig(a, act, tok, e, u, pw) ==
  [api_type |-> a, is_active |-> act, access_token |-> tok,
   waha_endpoint |-> e, waha_username |-> u, waha_password |-> pw,
   phone_number |-> "40700000000", webhook_token |-> "token-1",
   verify_token |-> "verify-1", waha_session |-> "default",
   business_account_id |-> FALSE]

PhoneConfigs ==
  { PhoneConfig("official", TRUE, TRUE, FALSE, FALSE, FALSE),
    PhoneConfig("official", FALSE, TRUE, FALSE, FALSE, FALSE),
    PhoneConfig("official", TRUE, FALSE, TRUE, TRUE, TRUE),
    PhoneConfig("waha", TRUE, FALSE, TRUE, TRUE, TRUE),
    PhoneConfig("waha", FALSE, FALSE, TRUE, TRUE, TRUE),
    PhoneConfig("waha", TRUE, TRUE, TRUE, TRUE, FALSE),
    PhoneConfig("waha", TRUE, TRUE, FALSE, TRUE, TRUE) }

is_waha_api(p) == p.api_type = "waha"

is_official_api(p) == p.api_type = "official"

\* self.waha_endpoint and self.waha_username and self.waha_password
waha_credentials(p) == p.waha_endpoint /\ p.waha_username /\ p.waha_password

\* ------------------------------------------------------- backend responses

\* What the backend does with one HTTP request.  code 0 stands for a
\* transport exception (no response); json says whether the body parses;
\* the body is a JSON object with an optional "messages" list (official
\* API), an optional truthy "success" flag and an optional "id" (WAHA).
Outcome(c, j, m, s, i) ==
  [code |-> c, json |-> j, messages |-> m, success |-> s, id |-> i]

Outcomes ==
  { Outcome(0, FALSE, "absent", FALSE, ""),          \* connection error
    Outcome(200, FALSE, "absent", FALSE, ""),        \* 200, body is not JSON
    Outcome(400, TRUE, "absent", FALSE, ""),         \* 400 {"error": {...}}
    Outcome(200, TRUE, "wamid.1", FALSE, ""),        \* 200 {"messages": [{"id": "wamid.1"}]}
    Outcome(200, TRUE, "empty", FALSE, ""),          \* 200 {"messages": []}
    Outcome(200, TRUE, "absent", TRUE, "wamid.1"),   \* 200 {"success": true, "id": "wamid.1"}
    Outcome(201, TRUE, "absent", TRUE, "wamid.1"),   \* 201, same body
    Outcome(200, TRUE, "absent", TRUE, ""),          \* 200 {"success": true}
    Outcome(201, TRUE, "absent", FALSE, "wamid.1") } \* 201 {"id": "wamid.1"}: no "success" key

\* ---------------------------------------------------------------- Message

\* The (message_type, content, media_file, template) of the outgoing
\* messages the model creates.  content "" is an empty text, media_file ""
\* no file, template None no Template row and "" a Template whose name is
\* empty.
Shape(t, c, f, tpl) ==
  [message_type |-> t, content |-> c, media_file |-> f, template |-> tpl]

Shapes ==
  { Shape("text", "hello", "", None),
    Shape("text", "", "", None),
    Shape("template", "hello_world", "", "hello_world"),
    Shape("template", "hello_world", "", ""),
    Shape("template", "hello_world", "", None),
    Shape("image", "", "media/file.bin", None),
    Shape("image", "", "", None),
    Shape("document", "", "media/file.bin", None),
    Shape("location", "", "", None) }

EmptyMetadata == [conversation |-> "", pricing |-> "", errors |-> None]

\* A Message row as cls.objects.create(...) of an outgoing message leaves it.
NewOutgoing(pk, shape) ==
  [direction |-> "outgoing", message_type |-> shape.message_type,
   content |-> shape.content, media_file |-> shape.media_file,
   template |-> shape.template, message_id |-> uuid4(pk), status |-> "pending",
   delivered_at |-> NoTime, read_at |-> NoTime, conversation_id |-> "",
   metadata |-> EmptyMetadata, error_code |-> "", error_message |-> "",
   from_number |-> "40700000000", to_number |-> "40777777777", contact |-> None]

\* ------------------------------------------------------------ persistence

\* The value of an expression computed once: The({ F(x) : x \in {e} }) is
\* F(e).
The(S) == CHOOSE x \in S : TRUE

\* A handler's progress: the table, the in-memory instance it works on, the
\* instance's PhoneNumber, what the backend does with a request, the saves
\* and HTTP requests made so far, and whether an exception is propagating.
Ctx(db, inst, p, o) ==
  [db |-> db, inst |-> inst, p |-> p, o |-> o, trace |-> <<>>, raised |-> FALSE]

\* A return of process_message_for_sending: the context and the value
\* returned ("True", "False"), or "raised" when an exception leaves it.
Returned(ctx, value) == [db |-> ctx.db, inst |-> ctx.inst, trace |-> ctx.trace, result |-> value]

\* unique=True on message_id: another row already holds the value.
message_id_taken(db, pk, mid) ==
  \E j \in DOMAIN db : j # pk /\ db[j].message_id = mid

\* instance.save(update_fields=fields): writes the listed columns of row pk
\* from the instance; raises IntegrityError, writing nothing, when it would
\* duplicate a message_id.  The post_save signal of the save is post_save
\* below: it follows the saves that store pending, and is left out after
\* the saves of a dispatch, which store sent or failed, where the receiver
\* returns at once.
save(ctx, pk, fields) ==
  IF "message_id" \in fields /\ message_id_taken(ctx.db, pk, ctx.inst.message_id)
  THEN [ctx EXCEPT !.raised = TRUE, !.trace = Append(@, "save:IntegrityError")]
  ELSE [ctx EXCEPT
          !.db[pk] = [f \in DOMAIN ctx.db[pk] |->
                        IF f \in fields THEN ctx.inst[f] ELSE ctx.db[pk][f]],
          !.trace = Append(@, "save:" \o ctx.inst.status)]

set_status(ctx, s) == [ctx EXCEPT !.inst.status = s]

raise(ctx) == [ctx EXCEPT !.raised = TRUE]

\* except Exception: instance.status = 'failed'; instance.save(update_fields=['status']); raise
mark_failed_and_reraise(ctx, pk) ==
  raise(save(set_status([ctx EXCEPT !.raised = FALSE], "failed"), pk, {"status"}))

http_request(ctx) == [ctx EXCEPT !.trace = Append(@, "http")]

\* No request reached a backend.
NoResponse == [code |-> 0, json |-> FALSE, messages |-> "none", success |-> FALSE, id |-> ""]

\* What the backend answered in a handler with this trace, given that it
\* answers o to a request.
response_seen(trace, o) ==
  IF \E k \in DOMAIN trace : trace[k] = "http" THEN o ELSE NoResponse

\* ---------------------------------------------------------- backend send

\* requests.post + response.json() of the official API, then the branch on
\* status_code == 200 and the enclosing except clause.
official_post(ctx, pk, o) ==
  LET c1 == http_request(ctx) IN
  IF o.code = 0 \/ ~o.json
  THEN mark_failed_and_reraise(c1, pk)                \* post or json() raised
  ELSE IF o.code = 200
  THEN IF o.messages = "empty"
       THEN mark_failed_and_reraise(c1, pk)           \* [][0]: IndexError
       ELSE LET new_id == IF o.messages = "absent" THEN "" ELSE o.messages
                c2 == save([c1 EXCEPT !.inst.message_id = new_id,
                                      !.inst.status = "sent"],
                           pk, {"message_id", "status"})
            IN IF c2.raised THEN mark_failed_and_reraise(c2, pk) ELSE c2
  ELSE mark_failed_and_reraise(save(set_status(c1, "failed"), pk, {"status"}), pk)

\* PhoneNumber._send_official_api_message with instance = row pk.  The
\* arguments are "" where the caller passes None.
_send_official_api_message(ctx, pk, p, message_text, template_name, media_url, media_type, o) ==
  IF ~p.access_token
  THEN raise(ctx)
  ELSE IF message_text # "" \/ template_name # "" \/ (media_url # "" /\ media_type # "")
  THEN official_post(ctx, pk, o)
  ELSE raise(ctx)

\* WAHAService._make_request: the response dictionary the caller sees.
_make_request(o) ==
  IF o.code \in {200, 201} /\ o.json
  THEN [success |-> o.success, id |-> o.id]
  ELSE [success |-> FALSE, id |-> ""]

\* The if response_data.get('success') branch of _send_waha_api_message and
\* the enclosing except clause.
waha_post(ctx, pk, o) ==
  LET c1 == http_request(ctx)
      response_data == _make_request(o)
  IN IF response_data.success
     THEN LET c2 == save([c1 EXCEPT !.inst.message_id = response_data.id,
                                    !.inst.status = "sent"],
                         pk, {"message_id", "status"})
          IN IF c2.raised THEN mark_failed_and_reraise(c2, pk) ELSE c2
     ELSE mark_failed_and_reraise(save(set_status(c1, "failed"), pk, {"status"}), pk)

\* PhoneNumber._send_waha_api_message with instance = row pk.
_send_waha_api_message(ctx, pk, p, message_text, template_name, media_url, media_type, o) ==
  IF ~waha_credentials(p)
  THEN raise(ctx)
  ELSE IF message_text # ""
          \/ (media_url # "" /\ media_type \in {"image", "document", "video", "audio"})
  THEN waha_post(ctx, pk, o)
  ELSE mark_failed_and_reraise(ctx, pk)               \* ValueError inside the try

\* PhoneNumber._send_message_without_record
_send_message_without_record(ctx, pk, p, message_text, template_name, media_url, media_type, o) ==
  IF is_official_api(p)
  THEN _send_official_api_message(ctx, pk, p, message_text, template_name, media_url, media_type, o)
  ELSE IF is_waha_api(p)
  THEN _send_waha_api_message(ctx, pk, p, message_text, template_name, media_url, media_type, o)
  ELSE raise(ctx)

\* ---------------------------------------------------------------- dispatch

\* message_instance.status = 'failed'; save(update_fields=['status']); return False
fail_fast(ctx, pk) == Returned(save(set_status(ctx, "failed"), pk, {"status"}), "False")

\* (mutant) the except clause logs and re-raises.
send_outcome_reraising(ctx, pk) ==
  IF ctx.raised
  THEN Returned(ctx, "raised")
  ELSE Returned(ctx, "True")

\* (mutant) the except clause returns False without marking the message.
send_outcome_unmarked(ctx, pk) ==
  IF ctx.raised
  THEN Returned([ctx EXCEPT !.raised = FALSE], "False")
  ELSE Returned(ctx, "True")

\* return True after the send, and the except clause closing
\* process_message_for_sending.
send_outcome(ctx, pk) ==
  IF ctx.raised
  THEN Returned(save(set_status([ctx EXCEPT !.raised = FALSE], "failed"), pk, {"status"}),
                "False")
  ELSE Returned(ctx, "True")

\* (mutant) the is_active check is missing.
cannot_send_ignoring_active(p) ==
  \/ is_official_api(p) /\ ~p.access_token
  \/ is_waha_api(p) /\ ~waha_credentials(p)

\* The three checks that open process_message_for_sending.
cannot_send(p) ==
  \/ ~p.is_active
  \/ is_official_api(p) /\ ~p.access_token
  \/ is_waha_api(p) /\ ~waha_credentials(p)

\* PhoneNumber.process_message_for_sending(message_instance) on phone p,
\* the instance being row pk, with backend outcome o.
process_message_for_sending(ctx, pk, p, o) ==
  LET m == ctx.inst IN
  IF cannot_send(p) THEN fail_fast(ctx, pk)
  ELSE IF m.message_type = "text"
  THEN send_outcome(
         _send_message_without_record(ctx, pk, p, m.content, "", "", "", o), pk)
  ELSE IF m.message_type = "template"
  THEN IF is_waha_api(p) THEN fail_fast(ctx, pk)
       ELSE IF m.template = None THEN send_outcome(raise(ctx), pk)  \* None.name
       ELSE IF m.template = "" THEN fail_fast(ctx, pk)
       ELSE send_outcome(
              _send_message_without_record(ctx, pk, p, "", m.template, "", "", o), pk)
  ELSE IF m.message_type \in {"image", "audio", "video", "document"}
  THEN send_outcome(
         _send_message_without_record(ctx, pk, p, "", "", m.media_file, m.message_type, o), pk)
  ELSE fail_fast(ctx, pk)

\* (mutant) the receiver does not look at created.
send_outgoing_message_on_every_save(ctx, pk, created, p, o) ==
  IF ctx.inst.direction = "outgoing" /\ ctx.inst.status = "pending"
  THEN process_message_for_sending(ctx, pk, p, o)
  ELSE Returned(ctx, "none")

\* post_save receiver send_outgoing_message for the instance in ctx.
send_outgoing_message(ctx, pk, created, p, o) ==
  IF created /\ ctx.inst.direction = "outgoing" /\ ctx.inst.status = "pending"
  THEN process_message_for_sending(ctx, pk, p, o)
  ELSE Returned(ctx, "none")

\* The post_save signal of a save: the receiver runs on the saved instance
\* and what it returns is dropped.
post_save(ctx, pk, created) ==
  The({ [c EXCEPT !.db = r.db, !.inst = r.inst, !.trace = r.trace] :
        c \in {ctx}, r \in {send_outgoing_message(ctx, pk, created, ctx.p, ctx.o)} })

\* (mutant) the status is not reset before the message is sent again.
reset_to_pending_skipped(ctx, pk) == ctx

\* self.status = 'pending'; self.save(update_fields=['status']), and the
\* post_save signal of that save.
reset_to_pending(ctx, pk) ==
  post_save(save(set_status(ctx, "pending"), pk, {"status"}), pk, FALSE)

\* Message.retry_send on row pk.
retry_send(db, pk, p, o) ==
  LET ctx == Ctx(db, db[pk], p, o) IN
  IF ctx.inst.direction # "outgoing"
  THEN Returned(ctx, "False")
  ELSE The({ The({ IF r.result = "raised"
                   THEN Returned(save(set_status([c1 EXCEPT !.db = r.db, !.inst = r.inst,
                                                            !.trace = r.trace,
                                                            !.raised = FALSE],
                                                 "failed"), pk, {"status"}),
                                 "False")
                   ELSE r :
                   r \in {process_message_for_sending(c1, pk, p, o)} }) :
             c1 \in {reset_to_pending(ctx, pk)} })

\* ------------------------------------------------------------- bulk retry

\* The counters of retry_sending_messages after one more message.
Counted(acc, db, events, succeeded) ==
  [acc EXCEPT !.db = db,
              !.trace = @ \o events,
              !.success_count = IF succeeded THEN @ + 1 ELSE @,
              !.error_count = IF succeeded THEN @ ELSE @ + 1]

\* The body of the loop of retry_sending_messages for message pk.
retry_one(acc, pk, p, o) ==
  IF acc.db[pk].direction # "outgoing"
  THEN Counted(acc, acc.db, <<"skip:" \o ToString(pk)>>, FALSE)
  ELSE The({ Counted(acc, r.db, <<"retry:" \o ToString(pk)>> \o r.trace, r.result = "True") :
             r \in {retry_send(acc.db, pk, p, o)} })

RECURSIVE retry_each_until_failure(_, _, _, _)
\* (mutant) the loop ends at the first message that is not sent.
retry_each_until_failure(acc, queryset, p, os) ==
  IF queryset = <<>> THEN acc
  ELSE The({ IF a.error_count > acc.error_count THEN a
             ELSE retry_each_until_failure(a, Tail(queryset), p, Tail(os)) :
             a \in {retry_one(acc, Head(queryset), p, Head(os))} })

RECURSIVE retry_each(_, _, _, _)
\* for msg in queryset: ... of retry_sending_messages; os[i] is what the
\* backend does with the request for the i-th message.
retry_each(acc, queryset, p, os) ==
  IF queryset = <<>> THEN acc
  ELSE The({ retry_each(a, Tail(queryset), p, Tail(os)) :
             a \in {retry_one(acc, Head(queryset), p, Head(os))} })

NoneRetried(db) == [db |-> db, trace |-> <<>>, success_count |-> 0, error_count |-> 0]

\* (mutant) retry_sending_messages giving up after the first failure.
retry_sending_messages_until_failure(db, queryset, p, os) ==
  retry_each_until_failure(NoneRetried(db), queryset, p, os)

\* MessageAdmin.retry_sending_messages(request, queryset)
retry_sending_messages(db, queryset, p, os) == retry_each(NoneRetried(db), queryset, p, os)

\* -------------------------------------------------------- official webhook

\* int(timestamp) followed by datetime.fromtimestamp: the seconds of the
\* datetime, or NoTime when int() raises ValueError.
parse_timestamp(t) ==
  CASE t = "1700000000" -> 1700000000
    [] OTHER -> NoTime

timestamp_parses(t) == t = "1700000000"

\* conversation.get('id') of the payload's conversation object.
conversation_id_of(conversation) ==
  IF conversation = "{id: conv-1}" THEN "conv-1" ELSE ""

\* (mutant) falls back to the newest message when none has the id.
get_by_message_id_or_newest(db, mid) ==
  IF \E j \in DOMAIN db : db[j].message_id = mid
  THEN CHOOSE j \in DOMAIN db : db[j].message_id = mid
  ELSE Len(db)

\* Message.objects.get(message_id=mid): the row of the message whose
\* message_id is mid, or 0 (Message.DoesNotExist).
get_by_message_id(db, mid) ==
  IF \E j \in DOMAIN db : db[j].message_id = mid
  THEN CHOOSE j \in DOMAIN db : db[j].message_id = mid
  ELSE 0

\* (mutant) the errors are added to those already stored.
store_errors_appending(metadata, errors) ==
  [metadata EXCEPT !.errors = IF @ = None THEN errors ELSE @ \o errors]

\* metadata['errors'] = errors
store_errors(metadata, errors) == [metadata EXCEPT !.errors = errors]

\* (mutant) delivered_at is stamped by every status update.
stamp_always_delivered(m, status, ts) ==
  [m EXCEPT !.delivered_at = ts,
            !.read_at = IF status = "read" THEN ts ELSE @]

\* message.delivered_at = status_timestamp if status == 'delivered' else message.delivered_at
\* message.read_at = status_timestamp if status == 'read' else message.read_at
stamp(m, status, ts) ==
  [m EXCEPT !.delivered_at = IF status = "delivered" THEN ts ELSE @,
            !.read_at = IF status = "read" THEN ts ELSE @]

\* The in-memory message after the assignments of process_status_update.
status_assignments(m, status_data) ==
  LET m1 == [m EXCEPT !.status = status_data.status]
      m2 == IF timestamp_parses(status_data.timestamp)
            THEN stamp(m1, status_data.status, parse_timestamp(status_data.timestamp))
            ELSE m1                                   \* except (ValueError, TypeError)
      conv == status_data.conversation
      cid == conversation_id_of(conv)
      md1 == IF conv # "" THEN [m.metadata EXCEPT !.conversation = conv] ELSE m.metadata
      md2 == IF status_data.pricing # "" THEN [md1 EXCEPT !.pricing = status_data.pricing]
             ELSE md1
      md3 == IF status_data.errors # None THEN store_errors(md2, status_data.errors)
             ELSE md2
      has_error == status_data.errors \notin {None, "[]"}
  IN [m2 EXCEPT
        !.conversation_id = IF conv # "" /\ cid # "" THEN cid ELSE @,
        !.metadata = md3,
        !.error_code = IF has_error THEN "131026" ELSE @,
        !.error_message = IF has_error THEN "Message undeliverable" ELSE @]

\* The update_fields list process_status_update builds.  'error_code' is
\* never a local name of the function, so the error columns are not listed.
status_update_fields(m, status_data) ==
  {"status", "metadata"}
  \cup (IF m.delivered_at # NoTime THEN {"delivered_at"} ELSE {})
  \cup (IF m.read_at # NoTime THEN {"read_at"} ELSE {})
  \cup (IF status_data.conversation # "" /\ m.conversation_id # ""
        THEN {"conversation_id"} ELSE {})

\* process_status_update(phone_number, status_data): the table afterwards.
process_status_update(db, status_data) ==
  IF status_data.id = "" \/ status_data.status = "" \/ status_data.timestamp = ""
  THEN db
  ELSE LET pk == get_by_message_id(db, status_data.id) IN
       IF pk = 0
       THEN db
       ELSE LET m == status_assignments(db[pk], status_data)
                fields == status_update_fields(m, status_data)
            IN [db EXCEPT ![pk] = [f \in DOMAIN db[pk] |->
                                     IF f \in fields THEN m[f] ELSE db[pk][f]]]

\* What process_status_update did with the entry: returned early on a
\* missing field, caught Message.DoesNotExist, or saved the message.
status_disposition(db, status_data) ==
  IF status_data.id = "" \/ status_data.status = "" \/ status_data.timestamp = ""
  THEN "status:skipped"
  ELSE IF get_by_message_id(db, status_data.id) = 0
  THEN "status:unknown"
  ELSE "status:updated"

\* The values of the model that str.isdigit accepts.
DigitStrings == {"40777777777", "40700000000", "40788888888", "12345"}

\* validate_phone_number(value) raises no ValidationError: the value is
\* made of digits and has 7 to 15 of them.
validate_phone_number(value) ==
  value \in DigitStrings /\ Len(value) >= 7 /\ Len(value) <= 15

\* normalize_phone_number: the digits of the value.
normalize_phone_number(n) ==
  CASE n = "+40777777777" -> "40777777777"
    [] n = "40777777777@c.us" -> "40777777777"
    [] n = "40700000000@c.us" -> "40700000000"
    [] n = "+40 788 888 888" -> "40788888888"
    [] n = "12345@c.us" -> "12345"
    [] OTHER -> n

\* Contact.objects.filter(phone_number=n).first() / .get(phone_number=n):
\* the row of the Contact holding exactly n, or 0.
find_contact(cts, n) ==
  IF \E j \in DOMAIN cts : cts[j].phone_number = n
  THEN CHOOSE j \in DOMAIN cts : cts[j].phone_number = n
  ELSE 0

\* Contact.objects.create(phone_number=n, name=name): Contact.save stores
\* the normalized number; unique=True raises IntegrityError on a duplicate.
create_contact(cts, n, name) ==
  LET stored == normalize_phone_number(n) IN
  IF find_contact(cts, stored) # 0
  THEN [cts |-> cts, raised |-> TRUE]
  ELSE [cts |-> Append(cts, [phone_number |-> stored, name |-> name]), raised |-> FALSE]

\* (mutant) the profile name is ignored: the Contact is named by its wa_id.
process_contact_without_profile(cts, contact_data) ==
  IF contact_data.wa_id = "" \/ find_contact(cts, contact_data.wa_id) # 0
  THEN [cts |-> cts, raised |-> FALSE]
  ELSE create_contact(cts, contact_data.wa_id, contact_data.wa_id)

\* process_contact(contact_data): get_or_create by wa_id, then the name
\* update.  profile_name "" stands for a profile without a name.
process_contact(cts, contact_data) ==
  LET wa_id == contact_data.wa_id
      name == IF contact_data.profile_name = "" THEN wa_id ELSE contact_data.profile_name
      j == find_contact(cts, wa_id)
  IN IF wa_id = "" THEN [cts |-> cts, raised |-> FALSE]
     ELSE IF j = 0 THEN create_contact(cts, wa_id, name)
     ELSE IF name # wa_id /\ name # cts[j].name
     THEN [cts |-> [cts EXCEPT ![j].name = name], raised |-> FALSE]
     ELSE [cts |-> cts, raised |-> FALSE]

\* The Message row an inbound webhook stores.
InboundRow(direction, status, message_type, content, message_id, from_number, to_number, contact) ==
  [direction |-> direction, message_type |-> message_type,
   content |-> content, media_file |-> "", template |-> None,
   message_id |-> message_id, status |-> status,
   delivered_at |-> NoTime, read_at |-> NoTime, conversation_id |-> "",
   metadata |-> EmptyMetadata, error_code |-> "", error_message |-> "",
   from_number |-> from_number, to_number |-> to_number, contact |-> contact]

\* system.new_wa_id of a message entry, "" when the entry has none.
new_wa_id(message_data) ==
  IF "new_wa_id" \in DOMAIN message_data THEN message_data.new_wa_id ELSE ""

\* contact.phone_number = new_wa_id; contact.save(update_fields=['phone_number'])
\* inside try/except: Contact.save stores the normalized number, and the
\* IntegrityError of a number another Contact holds is caught and logged.
change_contact_number(cts, j, wa_id) ==
  LET stored == normalize_phone_number(wa_id) IN
  IF \E k \in DOMAIN cts : k # j /\ cts[k].phone_number = stored
  THEN cts
  ELSE [cts EXCEPT ![j].phone_number = stored]

\* Message.contact is a foreign key to the Contact row; the model names the
\* Contact by its phone_number, so the Message rows of a Contact whose
\* number changed name it by the new number.
follow_contact(db, old, new) ==
  [i \in DOMAIN db |-> IF db[i].contact = old THEN [db[i] EXCEPT !.contact = new] ELSE db[i]]

\* message.content as the branch of the entry's type sets it; body stands
\* for the text body, the caption, the title or the emoji of the entry.
content_of(message_data) ==
  CASE message_data.type \in {"text", "image", "video", "document", "location",
                              "interactive", "button", "system"} -> message_data.body
    [] message_data.type = "reaction" -> "Reacted with " \o message_data.body
    [] message_data.type = "contacts" -> "Shared 1 contact(s)"
    [] message_data.type = "order" -> "Order from catalog " \o message_data.body
    [] message_data.type \in {"unknown", "unsupported"} -> "Unsupported message type"
    [] OTHER -> ""                       \* sticker, audio, a type without a branch

\* process_message(phone_number, message_data), media downloads left out:
\* the tables afterwards and whether an exception left the function: the
\* IntegrityError of Contact.objects.create or of message.save(), or the
\* AttributeError of text_data.get when "text" is not an object.
process_message(db, cts, p, message_data) ==
  IF message_data.id = "" \/ message_data.from = "" \/ message_data.timestamp = ""
     \/ message_data.type = ""
  THEN [db |-> db, cts |-> cts, raised |-> FALSE, trace |-> <<"message:skipped">>]
  ELSE LET j == find_contact(cts, message_data.from)
           c == IF j = 0 THEN create_contact(cts, message_data.from, message_data.from)
                ELSE [cts |-> cts, raised |-> FALSE]
           contact == IF j = 0 THEN normalize_phone_number(message_data.from)
                      ELSE cts[j].phone_number
       IN IF c.raised
          THEN [db |-> db, cts |-> cts, raised |-> TRUE,
                trace |-> <<"contact:IntegrityError">>]
          ELSE IF message_data.type = "text" /\ ~message_data.text_is_object
          THEN [db |-> db, cts |-> c.cts, raised |-> TRUE,
                trace |-> <<"message:AttributeError">>]
          ELSE LET k == find_contact(c.cts, contact)
                   cts2 == IF message_data.type = "system" /\ new_wa_id(message_data) # ""
                           THEN change_contact_number(c.cts, k, new_wa_id(message_data))
                           ELSE c.cts
                   db2 == follow_contact(db, contact, cts2[k].phone_number)
               IN IF message_id_taken(db, 0, message_data.id)
                  THEN [db |-> db2, cts |-> cts2, raised |-> TRUE,
                        trace |-> <<"message:IntegrityError">>]
                  ELSE [db |-> Append(db2, InboundRow("incoming", "received",
                                                      message_data.type,
                                                      content_of(message_data),
                                                      message_data.id, message_data.from,
                                                      p.phone_number,
                                                      cts2[k].phone_number)),
                        cts |-> cts2, raised |-> FALSE, trace |-> <<"message:created">>]

RECURSIVE process_contacts(_, _)
\* for contact_data in contacts: process_contact(contact_data)
process_contacts(r, cds) ==
  IF cds = <<>> THEN r
  ELSE The({ IF c.raised
             THEN [r EXCEPT !.raised = TRUE, !.trace = Append(@, "contact:IntegrityError")]
             ELSE process_contacts([r EXCEPT !.cts = c.cts], Tail(cds)) :
             c \in {process_contact(r.cts, Head(cds))} })

RECURSIVE process_statuses(_, _)
\* for status_data in statuses: process_status_update(phone_number, status_data)
process_statuses(r, statuses) ==
  IF statuses = <<>> THEN r
  ELSE The({ process_statuses(r1, Tail(statuses)) :
             r1 \in {[r EXCEPT !.db = process_status_update(r.db, Head(statuses)),
                               !.trace = Append(@, status_disposition(r.db, Head(statuses)))]} })

RECURSIVE process_messages(_, _)
\* for message_data in messages: process_message(phone_number, message_data);
\* an exception ends the loop.
process_messages(r, msgs) ==
  IF msgs = <<>> THEN r
  ELSE The({ IF r1.raised THEN r1 ELSE process_messages(r1, Tail(msgs)) :
             r1 \in { [r EXCEPT !.db = m.db, !.cts = m.cts, !.raised = m.raised,
                                !.trace = @ \o m.trace] :
                      m \in {process_message(r.db, r.cts, r.p, Head(msgs))} } })

\* webhook(request, webhook_token), POST with a valid token and a JSON body
\* holding one "messages" change: the table afterwards and the HTTP status.
webhook_post(db, cts, p, body) ==
  The({ IF r.raised
        THEN [db |-> r.db, cts |-> r.cts, trace |-> r.trace, code |-> "500"]
        ELSE The({ [db |-> r2.db, cts |-> r2.cts, trace |-> r2.trace, code |-> "200"] :
                   r2 \in {process_statuses(r, body.statuses)} }) :
        r \in { IF r0.raised THEN r0 ELSE process_messages(r0, body.messages) :
                r0 \in {process_contacts([db |-> db, cts |-> cts, p |-> p,
                                          raised |-> FALSE, trace |-> <<>>],
                                         body.contacts)} } })

\* A request to the official webhook URL: the method, the webhook_token of
\* the path, the hub.* query parameters of a GET, and for a POST whether the
\* body is JSON and what it holds.
Request(method, token, mode, verify_token, challenge, json, body) ==
  [method |-> method, webhook_token |-> token, mode |-> mode,
   verify_token |-> verify_token, challenge |-> challenge, json |-> json, body |-> body]

\* An HttpResponse that leaves the tables as they are.
Rejected(db, cts, code, why) ==
  [db |-> db, cts |-> cts, trace |-> <<why>>, code |-> code, content |-> why]

\* (mutant) the lookup does not ask for an official-API PhoneNumber.
phone_number_for_any_api(p, webhook_token) == p.webhook_token = webhook_token

\* PhoneNumber.objects.get(webhook_token=webhook_token, api_type='official')
\* finds the PhoneNumber.
phone_number_for(p, webhook_token) ==
  p.webhook_token = webhook_token /\ p.api_type = "official"

\* webhook(request, webhook_token): the tables afterwards, the HTTP status
\* and the content of the response.
webhook(db, cts, p, request) ==
  IF ~phone_number_for(p, request.webhook_token)
  THEN Rejected(db, cts, "403", "Invalid webhook token")
  ELSE IF request.method = "GET"
  THEN IF request.verify_token # p.verify_token
       THEN Rejected(db, cts, "403", "Verification failed: invalid token")
       ELSE IF request.mode = "subscribe"
       THEN [db |-> db, cts |-> cts, trace |-> <<"challenge">>, code |-> "200",
             content |-> request.challenge]
       ELSE Rejected(db, cts, "403", "Verification failed: invalid mode")
  ELSE IF request.method = "POST"
  THEN IF ~request.json
       THEN Rejected(db, cts, "400", "Invalid JSON")
       ELSE The({ [db |-> r.db, cts |-> r.cts, trace |-> r.trace, code |-> r.code,
                   content |-> IF r.code = "200" THEN "OK" ELSE "error"] :
                  r \in {webhook_post(db, cts, p, request.body)} })
  ELSE Rejected(db, cts, "405", "Method not allowed")

\* ------------------------------------------------------- webhook payloads

StatusPayload(i, s, t, c, p, e) ==
  [id |-> i, status |-> s, timestamp |-> t, conversation |-> c, pricing |-> p, errors |-> e]

\* Status entries (value.statuses[]) the provider may post.  status
\* "deleted" stands for any string outside STATUS_CHOICES, timestamp "abc"
\* for one int() rejects, "" for a missing field.
StatusPayloads ==
  { StatusPayload(i, s, t, x[1], x[2], x[3]) :
      i \in ProviderIds,
      s \in {"sent", "delivered", "read", "failed", "deleted"},
      t \in {"1700000000", "abc"},
      x \in { <<"", "", None>>,
              <<"{id: conv-1}", "{category: utility}", "[131026]">> } }
  \cup { StatusPayload("wamid.1", "", "1700000000", "", "", None) }

\* Message entries (value.messages[]) the provider may post.
MessagePayload(i, f, t, k, o, b) ==
  [id |-> i, from |-> f, timestamp |-> t, type |-> k, text_is_object |-> o, body |-> b]

MessagePayloads ==
  { MessagePayload("wamid.2", "40777777777", "1700000000", "text", TRUE, "hi") }

\* value.contacts, value.messages and value.statuses of one request.
Body(cds, msgs, sts) == [contacts |-> cds, messages |-> msgs, statuses |-> sts]

\* Entries that may precede another status entry of the same request.
LeadingStatuses ==
  { StatusPayload("wamid.1", "", "1700000000", "", "", None),
    StatusPayload("wamid.2", "delivered", "1700000000", "", "", None) }

FollowingStatuses ==
  { StatusPayload(i, "read", "1700000000", "", "", None) : i \in ProviderIds }

WebhookBodies ==
  { Body(<<>>, <<md>>, <<>>) : md \in MessagePayloads }
  \cup { Body(<<>>, <<>>, <<sd>>) : sd \in StatusPayloads }
  \cup { Body(<<>>, <<>>, <<s1, s2>>) :
           s1 \in LeadingStatuses, s2 \in FollowingStatuses }

\* The requests the dispatch specification lets the provider post.
FewWebhookBodies ==
  { Body(<<>>, <<md>>, <<>>) : md \in MessagePayloads }
  \cup { Body(<<>>, <<>>, <<StatusPayload("wamid.1", s, "1700000000", "", "", None)>>) :
           s \in {"delivered", "failed"} }

\* ----------------------------------------------------------------- actions

Init ==
  /\ phone \in PhoneConfigs
  /\ messages = <<>>
  /\ contacts = <<>>
  /\ templates = <<>>
  /\ procs = <<>>
  /\ last = [op |-> "init", pk |-> 0, result |-> "none", trace |-> <<>>,
             response |-> NoResponse]

\* The admin saves the PhoneNumber with other settings.  The receiver
\* fetch_templates_on_phone_number_save does nothing for a PhoneNumber
\* without business_account_id.
SavePhoneNumber(cfg) ==
  /\ cfg # phone
  /\ phone' = cfg
  /\ last' = [op |-> "save_phone", pk |-> 0, result |-> "none", trace |-> <<>>,
              response |-> NoResponse]
  /\ UNCHANGED <<messages, contacts, templates, procs>>

\* cls.objects.create(... direction='outgoing', status='pending') and the
\* post_save receiver it triggers, with at most limit Message rows
\* afterwards.
CreateOutgoingWithin(limit, shape, o) ==
  /\ Len(messages) < limit
  /\ \E r \in { send_outgoing_message(Ctx(db, db[Len(db)], phone, o), Len(db), TRUE, phone, o) :
                 db \in {Append(messages, NewOutgoing(Len(messages) + 1, shape))} } :
        LET pk == Len(messages) + 1
        IN /\ messages' = r.db
        /\ last' = [op |-> "create", pk |-> pk, result |-> r.result, trace |-> r.trace,
                    response |-> response_seen(r.trace, o)]
  /\ UNCHANGED <<phone, contacts, templates, procs>>

CreateOutgoing(shape, o) == CreateOutgoingWithin(MaxMessages, shape, o)

\* msg.retry_send() on a stored message.
RetrySend(pk, o) ==
  /\ pk \in DOMAIN messages
  /\ \E r \in {retry_send(messages, pk, phone, o)} :
        /\ messages' = r.db
        /\ last' = [op |-> "retry", pk |-> pk, result |-> r.result, trace |-> r.trace,
                    response |-> response_seen(r.trace, o)]
  /\ UNCHANGED <<phone, contacts, templates, procs>>

\* A request to the official webhook URL, with at most limit Message rows
\* afterwards.
OfficialRequest(limit, request) ==
  \E r \in {webhook(messages, contacts, phone, request)} :
     /\ Len(r.db) <= limit
     /\ messages' = r.db
     /\ contacts' = r.cts
     /\ last' = [op |-> "webhook", pk |-> 0, result |-> r.code, trace |-> r.trace,
                 response |-> NoResponse]
     /\ UNCHANGED <<phone, templates, procs>>

\* A JSON POST with this PhoneNumber's webhook_token.
PostRequest(body) == Request("POST", "token-1", "", "", "", TRUE, body)

\* POST to the official webhook with this PhoneNumber's webhook_token.
OfficialWebhook(body) == OfficialRequest(MaxMessages, PostRequest(body))

\* Dispatch over every phone configuration, message shape and backend
\* outcome, with a few webhook requests in between.
Next ==
  \/ \E cfg \in PhoneConfigs : SavePhoneNumber(cfg)
  \/ \E shape \in Shapes, o \in Outcomes : CreateOutgoing(shape, o)
  \/ \E pk \in 1..MaxMessages, o \in Outcomes : RetrySend(pk, o)
  \/ \E body \in FewWebhookBodies : OfficialWebhook(body)

Spec == Init /\ [][Next]_vars

\* The querysets an admin may select: the rows of a non-empty set of
\* messages, in any order.
Querysets(db) ==
  { q \in UNION { [1..n -> DOMAIN db] : n \in 1..Len(db) } :
      \A i, j \in DOMAIN q : i # j => q[i] # q[j] }

\* The "Retry sending selected messages" admin action.
BulkRetry(queryset, os) ==
  /\ \E r \in {retry_sending_messages(messages, queryset, phone, os)} :
        /\ messages' = r.db
        /\ last' = [op |-> "bulk_retry", pk |-> 0,
                    result |-> ToString(r.success_count) \o "/" \o ToString(r.error_count),
                    trace |-> r.trace, response |-> NoResponse]
  /\ UNCHANGED <<phone, contacts, templates, procs>>

\* What the backend does in the retry specification: it accepts the message
\* or the connection fails.
RetryOutcomes ==
  { Outcome(0, FALSE, "absent", FALSE, ""),
    Outcome(200, TRUE, "wamid.1", TRUE, "wamid.1") }

InitRetry ==
  /\ phone \in { PhoneConfig("official", TRUE, TRUE, FALSE, FALSE, FALSE),
                 PhoneConfig("official", FALSE, TRUE, FALSE, FALSE, FALSE),
                 PhoneConfig("official", TRUE, FALSE, TRUE, TRUE, TRUE) }
  /\ messages = <<>>
  /\ contacts = <<>>
  /\ templates = <<>>
  /\ procs = <<>>
  /\ last = [op |-> "init", pk |-> 0, result |-> "none", trace |-> <<>>,
             response |-> NoResponse]

\* Messages are created and received, and then retried several at once.
NextRetry ==
  \/ \E o \in RetryOutcomes : CreateOutgoingWithin(MaxSelected, Shape("text", "hello", "", None), o)
  \/ \E md \in MessagePayloads : OfficialRequest(MaxSelected, PostRequest(Body(<<>>, <<md>>, <<>>)))
  \/ \E q \in Querysets(messages) : \E os \in [DOMAIN q -> RetryOutcomes] : BulkRetry(q, os)

SpecRetry == InitRetry /\ [][NextRetry]_vars

\* A WAHA webhook request: the HTTP method, whether the body is JSON, and
\* in the body the event, the session, the payload (id, from, to, fromMe,
\* body, author) and me.id.  "" stands for an absent key.
WahaRequest(method, json, event, session, id, from, to, fromMe, body, author) ==
  [method |-> method, json |-> json, event |-> event, session |-> session,
   payload |-> [id |-> id, from |-> from, to |-> to, fromMe |-> fromMe,
                body |-> body, author |-> author],
   me |-> "40700000000@c.us"]

\* JsonResponse({"status": status, "message": message}, status=code) with
\* the tables as the view leaves them.
JsonResponse(db, cts, code, status, message) ==
  [db |-> db, cts |-> cts, trace |-> <<message>>, code |-> code,
   status |-> status, content |-> message]

\* from_number.split('@')[0] if '@' in from_number else from_number
clean_phone_number(from_number) ==
  CASE from_number = "40777777777@c.us" -> "40777777777"
    [] from_number = "40700000000@c.us" -> "40700000000"
    [] OTHER -> from_number

\* (mutant) a Contact is created for the counterpart of an echo too.
contact_for_always_created(cts, direction, clean, author) ==
  IF find_contact(cts, clean) # 0 THEN [cts |-> cts, raised |-> FALSE]
  ELSE create_contact(cts, clean, IF author # "" THEN author ELSE clean)

\* Contact.objects.get(phone_number=clean), and on DoesNotExist
\* Contact.objects.create(...) for an incoming message only.
contact_for(cts, direction, clean, author) ==
  IF find_contact(cts, clean) # 0 THEN [cts |-> cts, raised |-> FALSE]
  ELSE IF direction = "incoming"
  THEN create_contact(cts, clean, IF author # "" THEN author ELSE clean)
  ELSE [cts |-> cts, raised |-> FALSE]

\* (mutant) the numbers of an echo are stored as the payload has them.
swap_if_outgoing_skipped(direction, from_number, to_number) ==
  [from_number |-> from_number, to_number |-> to_number]

\* if direction == 'outgoing': from_number, to_number = to_number, from_number
swap_if_outgoing(direction, from_number, to_number) ==
  IF direction = "outgoing"
  THEN [from_number |-> to_number, to_number |-> from_number]
  ELSE [from_number |-> from_number, to_number |-> to_number]

\* _handle_incoming_message(payload, phone_number) for a message without
\* media, location or vCards.  Every exception (the TypeError of
\* '@' in None, the IntegrityError of either create) is answered 500.
\* The row is stored as received or sent, so the post_save receiver does
\* not dispatch it.
_handle_incoming_message(db, cts, p, request) ==
  LET message_data == request.payload
      direction == IF message_data.fromMe THEN "outgoing" ELSE "incoming"
      n == swap_if_outgoing(direction, message_data.from,
                            IF message_data.to # "" THEN message_data.to ELSE request.me)
      clean == clean_phone_number(n.from_number)
      c == contact_for(cts, direction, clean, message_data.author)
      contact == IF find_contact(cts, clean) # 0 THEN clean
                 ELSE IF direction = "incoming" THEN normalize_phone_number(clean)
                 ELSE None
  IN IF n.from_number = ""
     THEN JsonResponse(db, cts, "500", "error", "TypeError")
     ELSE IF c.raised
     THEN JsonResponse(db, cts, "500", "error", "contact:IntegrityError")
     ELSE IF message_data.id = ""
     THEN JsonResponse(db, c.cts, "500", "error", "message:NotNullViolation")
     ELSE IF message_id_taken(db, 0, message_data.id)
     THEN JsonResponse(db, c.cts, "500", "error", "message:IntegrityError")
     ELSE JsonResponse(
            Append(db, InboundRow(direction,
                                  IF direction = "incoming" THEN "received" ELSE "sent",
                                  "text", message_data.body, message_data.id,
                                  n.from_number, n.to_number, contact)),
            c.cts, "200", "success", "Message received and saved")

\* (mutant) every event of a known session is handled as a message.
is_message_event_always(event_type) == TRUE

\* if event_type == 'message'
is_message_event(event_type) == event_type = "message"

\* waha_webhook(request): @require_POST, then the session lookup
\* PhoneNumber.objects.get(waha_session=session_id, api_type='waha').
waha_webhook(db, cts, p, request) ==
  IF request.method # "POST"
  THEN JsonResponse(db, cts, "405", "error", "Method not allowed")
  ELSE IF ~request.json
  THEN JsonResponse(db, cts, "400", "error", "Invalid JSON")
  ELSE IF request.session = ""
  THEN JsonResponse(db, cts, "400", "error", "No session ID provided")
  ELSE IF ~(p.waha_session = request.session /\ p.api_type = "waha")
  THEN JsonResponse(db, cts, "404", "error", "Unknown session")
  ELSE IF is_message_event(request.event)
  THEN _handle_incoming_message(db, cts, p, request)
  ELSE JsonResponse(db, cts, "200", "success", "Event received but not processed")

\* A request to the WAHA webhook view, with at most limit Message rows
\* afterwards.
WahaWebhook(limit, request) ==
  \E r \in {waha_webhook(messages, contacts, phone, request)} :
     /\ Len(r.db) <= limit
     /\ messages' = r.db
     /\ contacts' = r.cts
     /\ last' = [op |-> "waha_webhook", pk |-> 0, result |-> r.code, trace |-> r.trace,
                 response |-> NoResponse]
     /\ UNCHANGED <<phone, templates, procs>>

\* Message events WAHA may post: a message of the counterpart to this
\* number (with and without "to"), and the echo of a message this number
\* sent (fromMe, "from" this number, "to" the counterpart).
WahaMessages ==
  { WahaRequest("POST", TRUE, "message", "default", i, "40777777777@c.us", t, FALSE, "hi", a) :
      i \in {"false_40777777777@c.us_A", "false_40777777777@c.us_B"},
      t \in {"40700000000@c.us", ""}, a \in {"", "Ana"} }
  \cup { WahaRequest("POST", TRUE, "message", "default", i, "40700000000@c.us",
                     "40777777777@c.us", TRUE, "hello", "") :
           i \in {"true_40777777777@c.us_C", "false_40777777777@c.us_A"} }

\* Echoes whose "to" is absent (me.id is used) or is not a chat id.
WahaEchoes ==
  { WahaRequest("POST", TRUE, "message", "default", "true_40777777777@c.us_C",
                "40700000000@c.us", t, TRUE, "hello", "Ana") :
      t \in {"", "+40777777777"} }

WahaRequests ==
  WahaMessages \cup WahaEchoes
  \cup { WahaRequest("POST", TRUE, e, s, "false_40777777777@c.us_A", "40777777777@c.us",
                     "40700000000@c.us", FALSE, "hi", "") :
           e \in {"message", "session.status"}, s \in {"", "other"} }
  \cup { WahaRequest("POST", TRUE, "session.status", "default", "false_40777777777@c.us_A",
                     "40777777777@c.us", "40700000000@c.us", FALSE, "hi", ""),
         WahaRequest("POST", FALSE, "", "", "", "", "", FALSE, "", ""),
         WahaRequest("GET", FALSE, "", "", "", "", "", FALSE, "", ""),
         WahaRequest("POST", TRUE, "message", "default", "false_40777777777@c.us_B", "",
                     "", FALSE, "hi", "") }

\* Contact entries (value.contacts[]) the provider may post.
ContactPayloads ==
  { [wa_id |-> "40777777777", profile_name |-> "Ana"],
    [wa_id |-> "40777777777", profile_name |-> ""] }

\* Message entries of the inbound specification: well-formed ones, one
\* without an id and one whose "text" is a string instead of an object.
InboundMessages ==
  { MessagePayload(i, "40777777777", "1700000000", "text", TRUE, "hi") : i \in ProviderIds }
  \cup { MessagePayload("", "40777777777", "1700000000", "text", TRUE, "hi"),
         MessagePayload("wamid.1", "40777777777", "1700000000", "text", FALSE, "hi") }

\* The first message entries of a request that holds two.
LeadingMessages ==
  { MessagePayload("", "40777777777", "1700000000", "text", TRUE, "hi"),
    MessagePayload("wamid.1", "40777777777", "1700000000", "text", FALSE, "hi") }

InboundBodies ==
  { Body(<<>>, <<md>>, <<>>) : md \in InboundMessages }
  \cup { Body(<<cd>>, <<md>>, <<>>) :
           cd \in ContactPayloads,
           md \in { MessagePayload("wamid.1", "40777777777", "1700000000", "text", TRUE, "hi") } }
  \cup { Body(<<>>, <<m1, m2>>, <<>>) :
           m1 \in LeadingMessages,
           m2 \in { MessagePayload("wamid.2", "40777777777", "1700000000", "text", TRUE, "hi") } }
  \cup { Body(<<>>, <<m1>>, <<sd>>) : m1 \in LeadingMessages, sd \in FollowingStatuses }

\* Requests to the official webhook URL.
Requests ==
  { Request("GET", t, m, v, "challenge-1", FALSE, Body(<<>>, <<>>, <<>>)) :
      t \in {"token-1", "token-2"}, m \in {"subscribe", "unsubscribe"},
      v \in {"verify-1", "verify-2"} }
  \cup { Request("POST", t, "", "", "", TRUE, b) :
           t \in {"token-1", "token-2"}, b \in InboundBodies }
  \cup { Request("POST", "token-1", "", "", "", FALSE, Body(<<>>, <<>>, <<>>)),
         Request("PUT", "token-1", "", "", "", FALSE, Body(<<>>, <<>>, <<>>)) }

InitInbound ==
  /\ phone \in { PhoneConfig("official", TRUE, TRUE, FALSE, FALSE, FALSE),
                 PhoneConfig("waha", TRUE, FALSE, TRUE, TRUE, TRUE) }
  /\ messages = <<>>
  /\ contacts \in { <<>>, <<[phone_number |-> "40777777777", name |-> "Ana"]>> }
  /\ templates = <<>>
  /\ procs = <<>>
  /\ last = [op |-> "init", pk |-> 0, result |-> "none", trace |-> <<>>,
             response |-> NoResponse]

\* Requests of the providers to the two webhook views.
NextInbound ==
  \/ \E request \in Requests : OfficialRequest(MaxMessages, request)
  \/ \E request \in WahaRequests : WahaWebhook(MaxMessages, request)

SpecInbound == InitInbound /\ [][NextInbound]_vars

\* ------------------------------------------------------------ send_message

\* The parameters of Message.create_outgoing_message after cls.
create_outgoing_message_parameters ==
  {"phone_number", "to_number", "contact", "message_text", "template_name",
   "template_params", "media_file", "media_type", "template"}

\* The keyword arguments PhoneNumber.send_message calls it with.
send_message_keywords ==
  {"phone_number", "to_number", "contact", "message_text", "template_name",
   "template_params", "media_url", "media_type", "template"}

\* A call with these keyword arguments binds to a function with these
\* parameters and no **kwargs; otherwise Python raises TypeError.
keywords_accepted(keywords, parameters) == keywords \subseteq parameters

\* Contact.find_by_phone(phone_number): the row of the Contact, or 0.
find_by_phone(cts, n) == find_contact(cts, normalize_phone_number(n))

\* Contact.objects.get_or_create(phone_number=n, defaults={'name': name}):
\* the lookup is by the value as given; the create stores the normalized
\* number and raises IntegrityError when a Contact holds it.
get_or_create(cts, n, name) ==
  IF find_contact(cts, n) # 0 THEN [cts |-> cts, raised |-> FALSE]
  ELSE create_contact(cts, n, name)

\* PhoneNumber.send_message(to_number, message_text=message_text) with
\* backend outcome o: the tables afterwards and "Message" when the Message
\* is returned, or the exception that leaves the method.
send_message(db, cts, p, to_number, message_text, o) ==
  IF \/ is_official_api(p) /\ ~p.access_token
     \/ is_waha_api(p) /\ ~waha_credentials(p)
  THEN [db |-> db, cts |-> cts, result |-> "ValueError", trace |-> <<>>]
  ELSE The({ IF c.raised
             THEN [db |-> db, cts |-> cts, result |-> "IntegrityError", trace |-> <<>>]
             ELSE IF ~keywords_accepted(send_message_keywords,
                                        create_outgoing_message_parameters)
             THEN [db |-> db, cts |-> c.cts, result |-> "TypeError", trace |-> <<>>]
             ELSE The({ [db |-> r.db, cts |-> c.cts, result |-> "Message",
                         trace |-> r.trace] :
                        r \in { send_outgoing_message(Ctx(d, d[Len(d)], p, o), Len(d),
                                                      TRUE, p, o) :
                                d \in { Append(db,
                                         [NewOutgoing(Len(db) + 1,
                                                      Shape("text", message_text, "", None))
                                            EXCEPT !.to_number = to_number,
                                                   !.contact = normalize_phone_number(to_number)])
                                      } } }) :
             c \in {get_or_create(cts, to_number, to_number)} })

\* phone.send_message(to_number, message_text=...), with at most limit
\* Message rows afterwards.
SendMessage(limit, to_number, message_text, o) ==
  \E r \in {send_message(messages, contacts, phone, to_number, message_text, o)} :
     /\ Len(r.db) <= limit
     /\ messages' = r.db
     /\ contacts' = r.cts
     /\ last' = [op |-> "send_message", pk |-> 0, result |-> r.result, trace |-> r.trace,
                 response |-> response_seen(r.trace, o)]
     /\ UNCHANGED <<phone, templates, procs>>

\* The numbers callers and providers give: as the Contact stores them, with
\* a leading plus, with spaces, and too short for a phone number.
RawNumbers == {"40777777777", "+40777777777", "+40 788 888 888", "12345"}

\* A system message saying that the sender changed number.
SystemPayload(i, f, t, w) ==
  [id |-> i, from |-> f, timestamp |-> t, type |-> "system", text_is_object |-> TRUE,
   body |-> "User changed number", new_wa_id |-> w]

\* The type strings of message entries: those process_message has a branch
\* for, and "ephemeral" for every other string.
InboundTypes ==
  {"text", "image", "video", "audio", "document", "location", "contacts", "interactive",
   "button", "reaction", "order", "sticker", "system", "unknown", "unsupported",
   "ephemeral"}

\* Message entries of the contact specification: a text message of every
\* number, a number change to every number and a message of every type.
ContactMessages ==
  { MessagePayload("wamid.1", n, "1700000000", "text", TRUE, "hi") : n \in RawNumbers }
  \cup { SystemPayload("wamid.2", "40777777777", "1700000000", w) : w \in RawNumbers }
  \cup { MessagePayload("wamid.3", "40777777777", "1700000000", k, TRUE, "x") :
           k \in InboundTypes \ {"text", "system"} }
  \cup { MessagePayload("wamid.3", "40777777777", "1700000000", "system", TRUE, "x") }

ContactBodies ==
  { Body(<<>>, <<md>>, <<>>) : md \in ContactMessages }
  \cup { Body(<<[wa_id |-> n, profile_name |-> "Ana"]>>, <<>>, <<>>) : n \in RawNumbers }

\* Messages of these numbers through the WAHA bridge.
ContactWahaRequests ==
  { WahaRequest("POST", TRUE, "message", "default", "false_A", f, "40700000000@c.us",
                FALSE, "hi", "") :
      f \in {"40777777777@c.us", "12345@c.us"} }

InitContacts ==
  /\ phone \in { PhoneConfig("official", TRUE, TRUE, FALSE, FALSE, FALSE),
                 PhoneConfig("official", TRUE, FALSE, FALSE, FALSE, FALSE),
                 PhoneConfig("waha", TRUE, FALSE, TRUE, TRUE, TRUE) }
  /\ messages = <<>>
  /\ contacts = <<>>
  /\ templates = <<>>
  /\ procs = <<>>
  /\ last = [op |-> "init", pk |-> 0, result |-> "none", trace |-> <<>>,
             response |-> NoResponse]

\* Contacts are made by inbound messages of both providers, by contact
\* entries, by number changes and by send_message.
NextContacts ==
  \/ \E body \in ContactBodies : OfficialRequest(MaxMessages, PostRequest(body))
  \/ \E request \in ContactWahaRequests : WahaWebhook(MaxMessages, request)
  \/ \E n \in RawNumbers, o \in RetryOutcomes : SendMessage(MaxMessages, n, "hello", o)

SpecContacts == InitContacts /\ [][NextContacts]_vars

\* ---------------------------------------------------------------- Template

\* Rows the Template table may hold.
MaxTemplates == 2

\* str.upper() on the status and category strings of the model.
upper(value) ==
  CASE value = "approved" -> "APPROVED"
    [] value = "marketing" -> "MARKETING"
    [] OTHER -> value

\* One entry of the "data" list of the message_templates answer.  None
\* stands for a key the entry lacks; language is {"code": code} when
\* language_is_dict and the plain string code otherwise; body is the text
\* of the BODY component.
TemplateData(i, n, s, c, d, l, b) ==
  [id |-> i, name |-> n, status |-> s, category |-> c, language_is_dict |-> d,
   language_code |-> l, body |-> b]

\* The language from_api_response keys the template on.
language_of(template_data) ==
  IF template_data.language_is_dict THEN template_data.language_code ELSE "en"

\* cls.objects.get(phone_number=phone_number, name=name, language=language):
\* the row of the Template, or 0 on DoesNotExist.  name=None matches no row.
find_template(tpls, name, language) ==
  IF \E j \in DOMAIN tpls : tpls[j].name = name /\ tpls[j].language = language
  THEN CHOOSE j \in DOMAIN tpls : tpls[j].name = name /\ tpls[j].language = language
  ELSE 0

\* cls(phone_number=phone_number, name=name, language=language) with the
\* defaults of the other fields.
new_template(name, language) ==
  [name |-> name, language |-> language, template_id |-> None, status |-> "PENDING",
   category |-> "UTILITY", body_text |-> ""]

\* The assignments of from_api_response to the template it found or built.
update_template(template, template_data) ==
  [template EXCEPT
     !.template_id = template_data.id,
     !.status = IF template_data.status = None THEN "PENDING"
                ELSE upper(template_data.status),
     !.category = IF template_data.category = None THEN "UTILITY"
                  ELSE upper(template_data.category),
     !.body_text = IF template_data.body = None THEN @ ELSE template_data.body]

\* (mutant) from_api_response building a new Template without looking for
\* the stored one; unique_together raises IntegrityError on the save.
from_api_response_always_creating(tpls, template_data) ==
  IF template_data.name = None
     \/ find_template(tpls, template_data.name, language_of(template_data)) # 0
  THEN [tpls |-> tpls, raised |-> TRUE]
  ELSE [tpls |-> Append(tpls, update_template(
                   new_template(template_data.name, language_of(template_data)),
                   template_data)),
        raised |-> FALSE]

\* Template.from_api_response(phone_number, template_data) for a dict: the
\* table afterwards, and whether template.save() raised (name is NOT NULL).
from_api_response(tpls, template_data) ==
  LET j == find_template(tpls, template_data.name, language_of(template_data)) IN
  IF template_data.name = None THEN [tpls |-> tpls, raised |-> TRUE]
  ELSE IF j = 0
  THEN [tpls |-> Append(tpls, update_template(
                   new_template(template_data.name, language_of(template_data)),
                   template_data)),
        raised |-> FALSE]
  ELSE [tpls |-> [tpls EXCEPT ![j] = update_template(tpls[j], template_data)],
        raised |-> FALSE]

RECURSIVE import_each(_, _)
\* for template_data in templates: Template.from_api_response(self, ...);
\* r is the table and the trace so far.  An exception leaves the loop.
import_each(r, data) ==
  IF data = <<>> THEN r
  ELSE The({ IF t.raised
             THEN [r EXCEPT !.raised = TRUE, !.trace = Append(@, "template:IntegrityError")]
             ELSE import_each([r EXCEPT !.tpls = t.tpls,
                                        !.trace = Append(@, "template:saved")],
                              Tail(data)) :
             t \in {from_api_response(r.tpls, Head(data))} })

\* PhoneNumber.fetch_templates() when the API answers response: the table
\* afterwards and "list" when the imported templates are returned, "None"
\* otherwise (the except clause logs the exception and returns None).
fetch_templates(tpls, p, response) ==
  IF ~is_official_api(p) \/ ~p.access_token \/ ~p.business_account_id
  THEN [tpls |-> tpls, result |-> "None", trace |-> <<>>]
  ELSE IF response.status_code # 200
  THEN [tpls |-> tpls, result |-> "None", trace |-> <<"GET message_templates">>]
  ELSE The({ [tpls |-> r.tpls, result |-> IF r.raised THEN "None" ELSE "list",
              trace |-> r.trace] :
             r \in {import_each([tpls |-> tpls, raised |-> FALSE,
                                 trace |-> <<"GET message_templates">>],
                                response.data)} })

\* fetch_templates_on_phone_number_save(sender, instance, created): the
\* post_save receiver of PhoneNumber.
fetch_templates_on_phone_number_save(tpls, p, response) ==
  IF is_official_api(p) /\ p.access_token /\ p.business_account_id /\ p.is_active
  THEN fetch_templates(tpls, p, response)
  ELSE [tpls |-> tpls, result |-> "None", trace |-> <<>>]

\* phone.fetch_templates(), as the admin's fetch view calls it, with at
\* most MaxTemplates Template rows afterwards.
FetchTemplates(response) ==
  \E r \in {fetch_templates(templates, phone, response)} :
     /\ Len(r.tpls) <= MaxTemplates
     /\ templates' = r.tpls
     /\ last' = [op |-> "fetch_templates", pk |-> 0, result |-> r.result, trace |-> r.trace,
                 response |-> NoResponse]
     /\ UNCHANGED <<phone, messages, contacts, procs>>

\* The admin saves the PhoneNumber with other settings and the receiver
\* fetches the templates.
SavePhoneNumberFetching(cfg, response) ==
  /\ cfg # phone
  /\ \E r \in {fetch_templates_on_phone_number_save(templates, cfg, response)} :
       /\ Len(r.tpls) <= MaxTemplates
       /\ templates' = r.tpls
       /\ last' = [op |-> "save_phone", pk |-> 0, result |-> r.result, trace |-> r.trace,
                   response |-> NoResponse]
  /\ phone' = cfg
  /\ UNCHANGED <<messages, contacts, procs>>

\* Entries of the answer: the same template in two languages, the same
\* template again with another status and without a body, a template
\* whose language is a plain string, another template, an entry without
\* a name.
TemplateEntries ==
  { TemplateData("t1", "welcome", "approved", "marketing", TRUE, "ro", "Buna"),
    TemplateData("t1", "welcome", "PAUSED", None, TRUE, "ro", None),
    TemplateData("t2", "welcome", "APPROVED", "UTILITY", TRUE, "en", "Hello"),
    TemplateData("t3", "welcome", None, "UTILITY", FALSE, "en_US", "Hi"),
    TemplateData("t4", "promo", "APPROVED", "MARKETING", TRUE, "en", "Sale"),
    TemplateData("t5", None, "APPROVED", "UTILITY", TRUE, "en", "Lost") }

\* Answers of the API: an error, and lists of up to two entries.
TemplateResponses ==
  { [status_code |-> 400, data |-> <<>>], [status_code |-> 200, data |-> <<>>] }
  \cup { [status_code |-> 200, data |-> <<a>>] : a \in TemplateEntries }
  \cup { [status_code |-> 200, data |-> <<a, b>>] : a \in TemplateEntries, b \in TemplateEntries }

\* PhoneNumbers with and without what fetch_templates needs.
TemplatePhones ==
  { [PhoneConfig("official", TRUE, TRUE, FALSE, FALSE, FALSE)
       EXCEPT !.business_account_id = TRUE],
    [PhoneConfig("official", FALSE, TRUE, FALSE, FALSE, FALSE)
       EXCEPT !.business_account_id = TRUE],
    PhoneConfig("official", TRUE, TRUE, FALSE, FALSE, FALSE),
    [PhoneConfig("waha", TRUE, FALSE, TRUE, TRUE, TRUE)
       EXCEPT !.business_account_id = TRUE] }

InitTemplates ==
  /\ phone \in TemplatePhones
  /\ messages = <<>>
  /\ contacts = <<>>
  /\ templates = <<>>
  /\ procs = <<>>
  /\ last = [op |-> "init", pk |-> 0, result |-> "none", trace |-> <<>>,
             response |-> NoResponse]

NextTemplates ==
  \/ \E response \in TemplateResponses : FetchTemplates(response)
  \/ \E cfg \in TemplatePhones, response \in TemplateResponses :
       SavePhoneNumberFetching(cfg, response)

SpecTemplates == InitTemplates /\ [][NextTemplates]_vars

\* --------------------------------------------------- concurrent dispatches

\* The two dispatches that run at the same time; dispatch i sends row i.
Dispatchers == {1, 2}

\* The Message table after two outgoing text messages were created.
TwoPending ==
  [i \in Dispatchers |-> NewOutgoing(i, Shape("text", "hello", "", None))]

\* What the backend does with the request of a dispatch: the connection
\* fails, it rejects the message, it accepts it under one of two ids, or it
\* accepts it with a body that names no id.
DispatchOutcomes ==
  { Outcome(0, FALSE, "absent", FALSE, ""),
    Outcome(400, TRUE, "absent", FALSE, ""),
    Outcome(200, TRUE, "wamid.1", TRUE, "wamid.1"),
    Outcome(200, TRUE, "wamid.2", TRUE, "wamid.2"),
    Outcome(200, TRUE, "absent", TRUE, "") }

\* How the send method takes the answer o: it stores the message as sent,
\* it takes the else branch (rejected), or an exception reaches its except
\* clause (raised).
answer(p, o) ==
  IF is_official_api(p)
  THEN IF o.code = 0 \/ ~o.json THEN "raised"
       ELSE IF o.code # 200 THEN "rejected"
       ELSE IF o.messages = "empty" THEN "raised"
       ELSE "sent"
  ELSE IF _make_request(o).success THEN "sent" ELSE "rejected"

\* response_data.get('messages', [{}])[0].get('id', '') of the official
\* API, response_data.get('id', '') of WAHA.
answer_id(p, o) ==
  IF is_official_api(p)
  THEN IF o.messages = "absent" THEN "" ELSE o.messages
  ELSE _make_request(o).id

\* The saves of status failed that follow: the else branch, the except
\* clause of the send method and the except clause of
\* process_message_for_sending.
failed_saves(kind) == IF kind = "rejected" THEN 3 ELSE 2

\* The handler's view of dispatch i: the table as it is now and the
\* instance the dispatch holds.
DispatchCtx(i) == Ctx(messages, procs[i].inst, phone, procs[i].o)

\* The checks that open process_message_for_sending.
StartDispatch(i) ==
  /\ procs[i].pc = "start"
  /\ IF cannot_send(phone)
     THEN /\ messages' = save(set_status(DispatchCtx(i), "failed"), i, {"status"}).db
          /\ procs' = [procs EXCEPT ![i].pc = "done", ![i].result = "False",
                                    ![i].inst.status = "failed"]
     ELSE /\ procs' = [procs EXCEPT ![i].pc = "post"]
          /\ UNCHANGED messages
  /\ UNCHANGED <<phone, contacts, templates, last>>

\* requests.post of the send method and the branch on the answer.
PostMessage(i) ==
  /\ procs[i].pc = "post"
  /\ procs' = [procs EXCEPT
       ![i].pc = IF answer(phone, procs[i].o) = "sent" THEN "save_sent" ELSE "save_failed",
       ![i].inst = IF answer(phone, procs[i].o) = "sent"
                   THEN [@ EXCEPT !.message_id = answer_id(phone, procs[i].o),
                                  !.status = "sent"]
                   ELSE @,
       ![i].saves = failed_saves(answer(phone, procs[i].o))]
  /\ UNCHANGED <<phone, messages, contacts, templates, last>>

\* instance.save(update_fields=['message_id', 'status']) after the backend
\* accepted the message; IntegrityError goes to the except clause.
SaveSent(i) ==
  /\ procs[i].pc = "save_sent"
  /\ \E r \in {save(DispatchCtx(i), i, {"message_id", "status"})} :
       IF r.raised
       THEN /\ procs' = [procs EXCEPT ![i].pc = "save_failed",
                                      ![i].saves = failed_saves("raised")]
            /\ UNCHANGED messages
       ELSE /\ procs' = [procs EXCEPT ![i].pc = "done", ![i].result = "True"]
            /\ messages' = r.db
  /\ UNCHANGED <<phone, contacts, templates, last>>

\* instance.status = 'failed'; instance.save(update_fields=['status'])
SaveFailed(i) ==
  /\ procs[i].pc = "save_failed"
  /\ messages' = save(set_status(DispatchCtx(i), "failed"), i, {"status"}).db
  /\ procs' = [procs EXCEPT
       ![i].inst.status = "failed",
       ![i].saves = @ - 1,
       ![i].pc = IF procs[i].saves = 1 THEN "done" ELSE @,
       ![i].result = IF procs[i].saves = 1 THEN "False" ELSE @]
  /\ UNCHANGED <<phone, contacts, templates, last>>

InitDispatchers ==
  /\ phone \in { PhoneConfig("official", TRUE, TRUE, FALSE, FALSE, FALSE),
                 PhoneConfig("waha", TRUE, FALSE, TRUE, TRUE, TRUE),
                 PhoneConfig("official", FALSE, TRUE, FALSE, FALSE, FALSE) }
  /\ messages = TwoPending
  /\ contacts = <<>>
  /\ templates = <<>>
  /\ procs \in [Dispatchers -> { [pc |-> "start", o |-> o, inst |-> TwoPending[i],
                                  saves |-> 0, result |-> "none"] :
                                 o \in DispatchOutcomes, i \in Dispatchers }]
  /\ \A i \in Dispatchers : procs[i].inst = TwoPending[i]
  /\ last = [op |-> "init", pk |-> 0, result |-> "none", trace |-> <<>>,
             response |-> NoResponse]

\* Each step is one database statement or one HTTP request of one of the
\* two dispatches; the steps of the two interleave freely.
NextDispatchers ==
  \E i \in Dispatchers :
     \/ StartDispatch(i)
     \/ PostMessage(i)
     \/ SaveSent(i)
     \/ SaveFailed(i)

SpecDispatchers == InitDispatchers /\ [][NextDispatchers]_vars

\* ---------------------------------------------------- concurrent webhooks

\* The two requests that carry the same inbound message.
Deliveries == {1, 2}

\* The message entry both requests carry, and the contacts entry a request
\* may carry with it.
RedeliveredMessage ==
  MessagePayload("wamid.1", "40777777777", "1700000000", "text", TRUE, "hi")

SenderProfile == [wa_id |-> "40777777777", profile_name |-> "Ana"]

\* (mutant) the Message table without the unique index on message_id.
insert_message_unchecked(db, row) == [db |-> Append(db, row), raised |-> FALSE]

\* message.save() of a new Message: unique=True on message_id raises
\* IntegrityError when a row holds the id.
insert_message(db, row) ==
  IF message_id_taken(db, 0, row.message_id)
  THEN [db |-> db, raised |-> TRUE]
  ELSE [db |-> Append(db, row), raised |-> FALSE]

\* Where a request goes after process_contact's get_or_create returned an
\* existing Contact: to the name update when the name differs.
after_get(cts, j) ==
  IF cts[j].name # SenderProfile.profile_name THEN "rename" ELSE "lookup"

\* The get of Contact.objects.get_or_create in process_contact; a request
\* without a contacts entry goes on to process_message.
GetContact(i) ==
  /\ procs[i].pc = "contacts"
  /\ procs' = [procs EXCEPT ![i].pc =
       IF ~procs[i].profile THEN "lookup"
       ELSE IF find_contact(contacts, SenderProfile.wa_id) = 0 THEN "create_contact"
       ELSE after_get(contacts, find_contact(contacts, SenderProfile.wa_id))]
  /\ UNCHANGED <<phone, messages, contacts, templates, last>>

\* The create of get_or_create; on IntegrityError get_or_create gets the
\* Contact again and returns it.
CreateContact(i) ==
  /\ procs[i].pc = "create_contact"
  /\ \E c \in {create_contact(contacts, SenderProfile.wa_id, SenderProfile.profile_name)} :
       /\ contacts' = c.cts
       /\ procs' = [procs EXCEPT ![i].pc =
            IF c.raised
            THEN after_get(contacts, find_contact(contacts, SenderProfile.wa_id))
            ELSE "lookup"]
  /\ UNCHANGED <<phone, messages, templates, last>>

\* contact.name = name; contact.save(update_fields=['name'])
RenameContact(i) ==
  /\ procs[i].pc = "rename"
  /\ contacts' = [contacts EXCEPT ![find_contact(contacts, SenderProfile.wa_id)].name =
                    SenderProfile.profile_name]
  /\ procs' = [procs EXCEPT ![i].pc = "lookup"]
  /\ UNCHANGED <<phone, messages, templates, last>>

\* Contact.objects.filter(phone_number=from_number).first() of
\* process_message.
LookupSender(i) ==
  /\ procs[i].pc = "lookup"
  /\ procs' = [procs EXCEPT ![i].pc =
       IF find_contact(contacts, RedeliveredMessage.from) = 0 THEN "create_sender"
       ELSE "insert_message"]
  /\ UNCHANGED <<phone, messages, contacts, templates, last>>

\* Contact.objects.create(phone_number=from_number, name=from_number); the
\* IntegrityError leaves the view, which answers 500.
CreateSender(i) ==
  /\ procs[i].pc = "create_sender"
  /\ \E c \in {create_contact(contacts, RedeliveredMessage.from, RedeliveredMessage.from)} :
       /\ contacts' = c.cts
       /\ procs' = [procs EXCEPT ![i].pc = IF c.raised THEN "done" ELSE "insert_message",
                                 ![i].result = IF c.raised THEN "500" ELSE @]
  /\ UNCHANGED <<phone, messages, templates, last>>

\* message.save() of process_message and the answer of the view.
InsertMessage(i) ==
  /\ procs[i].pc = "insert_message"
  /\ \E r \in {insert_message(messages,
                 InboundRow("incoming", "received", RedeliveredMessage.type,
                            content_of(RedeliveredMessage), RedeliveredMessage.id,
                            RedeliveredMessage.from, phone.phone_number,
                            normalize_phone_number(RedeliveredMessage.from)))} :
       /\ messages' = r.db
       /\ procs' = [procs EXCEPT ![i].pc = "done",
                                 ![i].result = IF r.raised THEN "500" ELSE "200"]
  /\ UNCHANGED <<phone, contacts, templates, last>>

InitDeliveries ==
  /\ phone \in { PhoneConfig("official", TRUE, TRUE, FALSE, FALSE, FALSE),
                 PhoneConfig("official", FALSE, FALSE, FALSE, FALSE, FALSE) }
  /\ messages = <<>>
  /\ contacts = <<>>
  /\ templates = <<>>
  /\ procs \in [Deliveries -> { [pc |-> "contacts", profile |-> b, result |-> "none"] :
                                b \in BOOLEAN }]
  /\ last = [op |-> "init", pk |-> 0, result |-> "none", trace |-> <<>>,
             response |-> NoResponse]

\* Each step is one database statement of one of the two requests; the
\* steps of the two interleave freely.
NextDeliveries ==
  \E i \in Deliveries :
     \/ GetContact(i)
     \/ CreateContact(i)
     \/ RenameContact(i)
     \/ LookupSender(i)
     \/ CreateSender(i)
     \/ InsertMessage(i)

SpecDeliveries == InitDeliveries /\ [][NextDeliveries]_vars

\* Status ingestion over every status payload, with text messages sent
\* through a phone number that works.
StatusOutcomes ==
  { Outcome(400, TRUE, "absent", FALSE, ""),
    Outcome(200, TRUE, "wamid.1", TRUE, "wamid.1") }

InitStatus ==
  /\ phone \in { PhoneConfig("official", TRUE, TRUE, FALSE, FALSE, FALSE),
                 PhoneConfig("waha", TRUE, FALSE, TRUE, TRUE, TRUE) }
  /\ messages = <<>>
  /\ contacts = <<>>
  /\ templates = <<>>
  /\ procs = <<>>
  /\ last = [op |-> "init", pk |-> 0, result |-> "none", trace |-> <<>>,
             response |-> NoResponse]

NextStatus ==
  \/ \E o \in StatusOutcomes : CreateOutgoing(Shape("text", "hello", "", None), o)
  \/ \E pk \in 1..MaxMessages, o \in StatusOutcomes : RetrySend(pk, o)
  \/ \E body \in WebhookBodies : OfficialWebhook(body)

SpecStatus == InitStatus /\ [][NextStatus]_vars

\* ------------------------------------------------------------- properties

\* The handler that ran last dispatched message last.pk: the post_save
\* receiver of a new outgoing message, or retry_send on an outgoing one.
Dispatched ==
  \/ last.op = "create"
  \/ last.op = "retry" /\ messages[last.pk].direction = "outgoing"

\* The handler that ran last sent an HTTP request to a backend.
MadeRequest == \E k \in DOMAIN last.trace : last.trace[k] = "http"

\* C1: dispatch is total: for every api_type, message type, active flag,
\* credential presence and backend outcome, process_message_for_sending
\* returns True or False and never raises to its caller.
C1_DispatchTotal == Dispatched => last.result \in {"True", "False"}

\* A connection error during the request was swallowed into False.
C1_Witness ==
  /\ Dispatched
  /\ MadeRequest
  /\ last.response.code = 0
  /\ last.result = "False"

\* The cases in which dispatch must not reach a backend.
FailFastCase ==
  LET m == messages[last.pk] IN
  \/ ~phone.is_active
  \/ phone.api_type = "official" /\ ~phone.access_token
  \/ phone.api_type = "waha"
       /\ ~(phone.waha_endpoint /\ phone.waha_username /\ phone.waha_password)
  \/ phone.api_type = "waha" /\ m.message_type = "template"
  \/ m.message_type \notin {"text", "template", "image", "audio", "video", "document"}

\* C2: fail-fast without network: an inactive phone number, missing
\* credentials of the api_type, a template on a WAHA phone number or an
\* unsupported message type make dispatch return False with the message
\* failed and no HTTP request issued.
C2_FailFastNoNetwork ==
  Dispatched /\ FailFastCase =>
    /\ last.result = "False"
    /\ messages[last.pk].status = "failed"
    /\ ~MadeRequest

\* A template message on an active, fully configured WAHA phone number.
C2_Witness ==
  /\ Dispatched
  /\ phone.api_type = "waha" /\ phone.is_active
  /\ phone.waha_endpoint /\ phone.waha_username /\ phone.waha_password
  /\ messages[last.pk].message_type = "template"
  /\ messages[last.pk].status = "failed"

\* The backend answered the send with success: the official API with HTTP
\* 200 and a message id in the body, WAHA with HTTP 200 or 201 and a JSON
\* body.
BackendSuccess ==
  /\ MadeRequest
  /\ last.response.json
  /\ \/ phone.api_type = "official" /\ last.response.code = 200
          /\ last.response.messages \in ProviderIds
     \/ phone.api_type = "waha" /\ last.response.code \in {200, 201}

\* The provider id the answer carried, "" when it carried none.
ReturnedId ==
  IF phone.api_type = "official" THEN last.response.messages ELSE last.response.id

\* C3: on backend success (official API: HTTP 200; WAHA: an HTTP 200 or 201
\* answer of the send endpoint) dispatch sets the status to sent, stores the
\* provider message id when one was returned, and returns True, for both
\* backends.  The code does not do this: _send_waha_api_message also wants
\* a truthy "success" key in the answer's body.
C3_SuccessMarksSent ==
  Dispatched /\ BackendSuccess =>
    /\ messages[last.pk].status = "sent"
    /\ last.result = "True"
    /\ ReturnedId # "" => messages[last.pk].message_id = ReturnedId

\* WAHA answered 201 with a JSON body that has no "success" key, and the
\* message is failed.
C3_Witness ==
  /\ Dispatched
  /\ MadeRequest
  /\ phone.api_type = "waha"
  /\ last.response.code = 201 /\ last.response.json /\ ~last.response.success
  /\ messages[last.pk].status = "failed"
  /\ last.result = "False"

\* The backend answered with a non-success response or no response at all.
BackendFailure ==
  /\ MadeRequest
  /\ \/ last.response.code = 0
     \/ phone.api_type = "official" /\ last.response.code # 200
     \/ phone.api_type = "waha" /\ last.response.code \notin {200, 201}

\* An exception was raised while sending: before any request was made,
\* while reading the answer, or while saving the message.
SendException ==
  \/ ~MadeRequest
  \/ ~last.response.json
  \/ phone.api_type = "official" /\ last.response.messages = "empty"
  \/ \E k \in DOMAIN last.trace : last.trace[k] = "save:IntegrityError"

\* C4: on backend failure or any exception raised while sending, dispatch
\* sets the status to failed and returns False; the exception is swallowed
\* and the message is never left pending once dispatch has returned.
C4_FailureMarksFailed ==
  Dispatched =>
    /\ last.result # "raised"
    /\ messages[last.pk].status # "pending"
    /\ last.result = "False" => messages[last.pk].status = "failed"
    /\ BackendFailure \/ SendException =>
         messages[last.pk].status = "failed" /\ last.result = "False"

\* The backend answered HTTP 400 and the message is failed.
C4_Witness ==
  /\ Dispatched
  /\ MadeRequest
  /\ last.response.code = 400
  /\ messages[last.pk].status = "failed"
  /\ last.result = "False"

\* C10: retry_send on an outgoing message first persists status pending and
\* only then dispatches, returning dispatch's boolean, so that on return
\* the status is sent or failed; on a message that is not outgoing it
\* returns False, changes nothing and contacts no backend.
C10_RetryResetsThenDispatches ==
  [][last'.op = "retry" =>
       LET pk == last'.pk IN
       IF messages[pk].direction = "outgoing"
       THEN /\ Len(last'.trace) >= 2
            /\ last'.trace[1] = "save:pending"
            /\ last'.result \in {"True", "False"}
            /\ last'.result = "True" <=> messages'[pk].status = "sent"
            /\ last'.result = "False" <=> messages'[pk].status = "failed"
       ELSE /\ last'.result = "False"
            /\ messages' = messages
            /\ last'.trace = <<>>]_vars

\* A delivered message was retried and the backend accepted it.
C10_Witness ==
  /\ last.op = "retry"
  /\ messages[last.pk].direction = "outgoing"
  /\ last.trace = <<"save:pending", "http", "save:sent">>
  /\ last.result = "True"
  /\ messages[last.pk].delivered_at # NoTime

\* Some stored message has this message_id.
Known(mid) == \E j \in DOMAIN messages : messages[j].message_id = mid

\* A status moved backwards, or out of failed, between old and new.
Regressed(old, new) ==
  \/ old = "read" /\ new \in {"pending", "sent", "delivered"}
  \/ old = "delivered" /\ new \in {"pending", "sent"}
  \/ old = "failed" /\ new \in {"sent", "delivered", "read"}

\* C5: status transitions are forward-only: a status webhook never moves a
\* message backwards along pending, sent, delivered, read (a delivered
\* update after read does not revert the status to delivered) and never
\* moves a failed message to sent, delivered or read.  The code does not do
\* this: process_status_update stores the payload's status as it comes.
C5_ForwardOnly ==
  [][last'.op = "webhook" =>
       \A pk \in DOMAIN messages :
         ~Regressed(messages[pk].status, messages'[pk].status)]_vars

\* A message that was read is delivered again.
C5_Witness ==
  /\ last.op = "webhook"
  /\ \E pk \in DOMAIN messages :
       messages[pk].read_at # NoTime /\ messages[pk].status = "delivered"

\* C6: received is terminal: a message stored with status received never
\* changes status afterwards.  The code does not do this: a status update
\* naming an inbound message's message_id overwrites its status.
C6_ReceivedTerminal ==
  [][\A pk \in DOMAIN messages :
       messages[pk].status = "received" => messages'[pk].status = "received"]_vars

\* An inbound message whose status is no longer received.
C6_Witness ==
  \E pk \in DOMAIN messages :
    messages[pk].direction = "incoming" /\ messages[pk].status # "received"

\* C7: a status update whose message_id matches no stored message is a
\* no-op: no message is created or modified, the entries after it are
\* processed as if it had not been there, and the request answers 200.
C7_UnknownStatusIsNoOp ==
  \A sd \in StatusPayloads :
    sd.id # "" /\ sd.status # "" /\ sd.timestamp # "" /\ ~Known(sd.id) =>
      /\ process_status_update(messages, sd) = messages
      /\ \A sd2 \in FollowingStatuses :
           LET r == webhook_post(messages, contacts, phone, Body(<<>>, <<>>, <<sd, sd2>>))
           IN /\ r.code = "200"
              /\ r.db = process_status_update(messages, sd2)

\* A request whose first status entry named no stored message and whose
\* second entry updated one.
C7_Witness ==
  /\ last.op = "webhook"
  /\ last.trace = <<"status:unknown", "status:updated">>
  /\ last.result = "200"
  /\ \E pk \in DOMAIN messages : messages[pk].status = "read"

\* The columns status ingestion is compared on.
StatusColumns == {"status", "delivered_at", "read_at", "conversation_id", "metadata"}

\* C8: status ingestion is idempotent: applying the same status payload
\* twice to an existing message yields the same status, delivered_at,
\* read_at, conversation_id and metadata as applying it once.
C8_StatusIdempotent ==
  \A sd \in StatusPayloads :
    Known(sd.id) =>
      LET once == process_status_update(messages, sd)
          twice == process_status_update(once, sd)
      IN \A pk \in DOMAIN messages, f \in StatusColumns : twice[pk][f] = once[pk][f]

\* A status update with conversation, pricing and errors was stored.
C8_Witness ==
  /\ last.op = "webhook"
  /\ last.trace = <<"status:updated">>
  /\ \E pk \in DOMAIN messages :
       /\ messages[pk].metadata.errors = "[131026]"
       /\ messages[pk].conversation_id = "conv-1"
       /\ messages[pk].delivered_at # NoTime

\* A status update sets delivered_at only when its status is delivered and
\* read_at only when its status is read.
StampsOnlyMatching ==
  \A sd \in StatusPayloads :
    LET after == process_status_update(messages, sd) IN
    \A pk \in DOMAIN messages :
      /\ after[pk].delivered_at # messages[pk].delivered_at => sd.status = "delivered"
      /\ after[pk].read_at # messages[pk].read_at => sd.status = "read"

ExceptionWhileSending ==
  /\ MadeRequest
  /\ last.response.code = 0 \/ ~last.response.json

\* C11: manual retry re-raises exceptions to its caller: when sending fails
\* with an exception during a retry, retry_send propagates that exception.
\* The code does not do this: process_message_for_sending turns every
\* exception into False and retry_send's own except clause returns False.
C11_RetryReraises ==
  last.op = "retry" /\ Dispatched /\ ExceptionWhileSending => last.result = "raised"

\* A retry whose request ended in a connection error returned False.
C11_Witness ==
  /\ last.op = "retry"
  /\ messages[last.pk].direction = "outgoing"
  /\ MadeRequest
  /\ last.response.code = 0
  /\ last.result = "False"
  /\ messages[last.pk].status = "failed"

\* How many times x occurs in the sequence.
Count(seq, x) == Cardinality({ k \in DOMAIN seq : seq[k] = x })

\* C12: bulk retry isolation: a bulk retry attempts every selected outgoing
\* message exactly once whatever the outcome of the others, each ending
\* sent or failed; selected messages that are not outgoing count as errors
\* and are not touched, and every selected message is counted once.
C12_BulkRetryIsolation ==
  \A q \in Querysets(messages) : \A os \in [DOMAIN q -> RetryOutcomes] :
    LET r == retry_sending_messages(messages, q, phone, os)
        selected == { q[i] : i \in DOMAIN q }
        outgoing == { pk \in selected : messages[pk].direction = "outgoing" }
    IN /\ \A pk \in outgoing :
            /\ Count(r.trace, "retry:" \o ToString(pk)) = 1
            /\ r.db[pk].status \in {"sent", "failed"}
       /\ \A pk \in selected \ outgoing :
            /\ Count(r.trace, "retry:" \o ToString(pk)) = 0
            /\ r.db[pk] = messages[pk]
       /\ \A pk \in DOMAIN messages \ selected : r.db[pk] = messages[pk]
       /\ Count(r.trace, "save:pending") = Cardinality(outgoing)
       /\ r.success_count = Cardinality({ pk \in outgoing : r.db[pk].status = "sent" })
       /\ r.success_count + r.error_count = Len(q)

\* Two messages were retried at once: the first failed, the second was sent
\* after it.
C12_Witness ==
  /\ last.op = "bulk_retry"
  /\ last.result = "1/1"
  /\ Len(last.trace) >= 2
  /\ last.trace[1] = "retry:1"
  /\ Count(last.trace, "retry:2") = 1
  /\ messages[1].status = "failed"
  /\ messages[2].status = "sent"

\* C13: saving a newly created outgoing pending message triggers exactly one
\* dispatch attempt inline; the later saves of the same message (the pending
\* save of retry_send, the status saves of dispatch) trigger none through
\* the signal, so one retry makes exactly one send attempt.
C13_SignalDispatchesOnce ==
  /\ last.op = "create" =>
       /\ last.result \in {"True", "False"}
       /\ Count(last.trace, "save:pending") = 0
       /\ Count(last.trace, "http") <= 1
  /\ last.op = "retry" /\ messages[last.pk].direction = "outgoing" =>
       /\ Count(last.trace, "save:pending") = 1
       /\ Count(last.trace, "http") <= 1
  /\ last.op \in {"create", "retry"} /\ messages[last.pk].direction = "outgoing"
       /\ ~cannot_send(phone) /\ messages[last.pk].message_type = "text"
       /\ messages[last.pk].content # "" =>
       Count(last.trace, "http") = 1

\* A retry that saved pending, made one request and saved sent.
C13_Witness ==
  /\ last.op = "retry"
  /\ messages[last.pk].direction = "outgoing"
  /\ Count(last.trace, "save:pending") = 1
  /\ Count(last.trace, "http") = 1
  /\ Count(last.trace, "save:sent") = 1
  /\ last.result = "True"

\* C14: a request to the official webhook has an effect only when
\* authenticated: when the webhook_token of the path matches no official-API
\* PhoneNumber the answer is 403 for GET and POST and no Contact or Message
\* is created or changed; a GET echoes hub.challenge only if hub.mode is
\* subscribe and hub.verify_token is that PhoneNumber's verify_token, and is
\* answered 403 otherwise.
C14_WebhookAuthenticated ==
  \A request \in Requests :
    LET r == webhook(messages, contacts, phone, request)
        known == phone.api_type = "official" /\ phone.webhook_token = request.webhook_token
    IN /\ ~known => r.code = "403" /\ r.db = messages /\ r.cts = contacts
       /\ request.method = "GET" =>
            /\ r.db = messages /\ r.cts = contacts
            /\ IF known /\ request.mode = "subscribe"
                  /\ request.verify_token = phone.verify_token
               THEN r.code = "200" /\ r.content = request.challenge
               ELSE r.code = "403" /\ r.content # request.challenge

\* A request with a token no official PhoneNumber has was refused while a
\* message was stored.
C14_Witness ==
  /\ last.op = "webhook"
  /\ last.result = "403"
  /\ last.trace = <<"Invalid webhook token">>
  /\ messages # <<>>
  /\ contacts # <<>>


\* The Message rows holding this message_id.
WithMessageId(db, mid) == { j \in DOMAIN db : db[j].message_id = mid }

\* The official request delivers one well-formed message that is already
\* stored as this delivery would store it.
RedeliveredOfficial(request) ==
  /\ request.method = "POST" /\ request.json
  /\ phone_number_for(phone, request.webhook_token)
  /\ Len(request.body.messages) = 1
  /\ LET md == request.body.messages[1]
     IN /\ md.id # "" /\ md.text_is_object
        /\ \E j \in WithMessageId(messages, md.id) :
             /\ messages[j].direction = "incoming"
             /\ messages[j].content = md.body
             /\ messages[j].from_number = md.from

\* The WAHA message event is already stored as this delivery would store it.
RedeliveredWaha(request) ==
  /\ request \in WahaMessages
  /\ phone.api_type = "waha" /\ phone.waha_session = request.session
  /\ \E j \in WithMessageId(messages, request.payload.id) :
       /\ messages[j].direction = (IF request.payload.fromMe THEN "outgoing" ELSE "incoming")
       /\ messages[j].content = request.payload.body

\* C15: inbound messages are deduplicated on message_id by both parsers:
\* delivering a message event whose message_id is already stored leaves
\* exactly one Message with that message_id, unchanged, and the delivery is
\* answered as a success, not as an error.
C15_InboundDedup ==
  /\ \A request \in Requests :
       RedeliveredOfficial(request) =>
         LET r == webhook(messages, contacts, phone, request)
         IN /\ r.db = messages
            /\ Cardinality(WithMessageId(r.db, request.body.messages[1].id)) = 1
            /\ r.code = "200"
  /\ \A request \in WahaRequests :
       RedeliveredWaha(request) =>
         LET r == waha_webhook(messages, contacts, phone, request)
         IN /\ r.db = messages
            /\ Cardinality(WithMessageId(r.db, request.payload.id)) = 1
            /\ r.code = "200"

\* The second delivery of a stored message was answered 500: the unique
\* message_id made message.save() raise IntegrityError.
C15_Witness ==
  /\ last.op = "webhook"
  /\ last.result = "500"
  /\ last.trace = <<"message:IntegrityError">>
  /\ Cardinality(WithMessageId(messages, "wamid.1")) = 1


\* The message entry lacks a required field.
MissingField(md) ==
  md.id = "" \/ md.from = "" \/ md.timestamp = "" \/ md.type = ""

\* The message entry is malformed: a required field is missing, or "text"
\* is not an object.
Malformed(md) == MissingField(md) \/ (md.type = "text" /\ ~md.text_is_object)

\* The dispositions of status entries in a trace.
StatusDispositions(trace) ==
  { k \in DOMAIN trace : trace[k] \in {"status:skipped", "status:unknown", "status:updated"} }

\* The request is an authenticated JSON POST holding exactly one malformed
\* message entry.
OneMalformed(request) ==
  /\ request.method = "POST" /\ request.json
  /\ phone_number_for(phone, request.webhook_token)
  /\ Cardinality({ k \in DOMAIN request.body.messages : Malformed(request.body.messages[k]) }) = 1

\* C16: entries of an official webhook request are isolated from each
\* other: a malformed message entry is skipped, and every other message
\* entry of the request is stored and every status entry is processed.
C16_PerItemIsolation ==
  \A request \in Requests :
    OneMalformed(request) =>
      LET r == webhook(messages, contacts, phone, request)
          msgs == request.body.messages
      IN /\ \A k \in DOMAIN msgs :
              ~Malformed(msgs[k]) /\ ~Known(msgs[k].id) =>
                Cardinality(WithMessageId(r.db, msgs[k].id)) = 1
         /\ Cardinality(StatusDispositions(r.trace)) = Len(request.body.statuses)

\* A request whose message entry has a string as "text" was answered 500,
\* and nothing of the request was stored.
C16_Witness ==
  /\ last.op = "webhook"
  /\ last.result = "500"
  /\ last.trace = <<"message:AttributeError">>
  /\ messages = <<>>

\* The part of the claim about missing fields: an entry without a required
\* field is skipped, and the other entries of the request are processed.
MissingFieldEntrySkipped ==
  \A request \in Requests :
    (/\ OneMalformed(request)
     /\ \A k \in DOMAIN request.body.messages :
          Malformed(request.body.messages[k]) => MissingField(request.body.messages[k])) =>
      LET r == webhook(messages, contacts, phone, request)
          msgs == request.body.messages
      IN /\ \A k \in DOMAIN msgs :
              ~Malformed(msgs[k]) /\ ~Known(msgs[k].id) =>
                Cardinality(WithMessageId(r.db, msgs[k].id)) = 1
         /\ Cardinality(StatusDispositions(r.trace)) = Len(request.body.statuses)


\* The request is an authenticated JSON POST with one well-formed text
\* message, not stored yet, from a number that has no Contact.
TextFromNewNumber(request) ==
  /\ request.method = "POST" /\ request.json
  /\ phone_number_for(phone, request.webhook_token)
  /\ Len(request.body.messages) = 1
  /\ LET md == request.body.messages[1]
     IN /\ ~Malformed(md) /\ md.type = "text"
        /\ ~Known(md.id)
        /\ find_contact(contacts, md.from) = 0

\* The profile name the request gives for this number in value.contacts[],
\* or "" when it gives none.
ProfileName(request, n) ==
  IF \E k \in DOMAIN request.body.contacts :
       request.body.contacts[k].wa_id = n /\ request.body.contacts[k].profile_name # ""
  THEN LET k == CHOOSE k \in DOMAIN request.body.contacts :
                  request.body.contacts[k].wa_id = n
                  /\ request.body.contacts[k].profile_name # ""
       IN request.body.contacts[k].profile_name
  ELSE ""

\* The view answered 200, added one Contact of this name for the sender and
\* one Message incoming/text/received holding the text body.
StoredTextFrom(request, r, name) ==
  LET md == request.body.messages[1]
  IN /\ r.code = "200"
     /\ Len(r.cts) = Len(contacts) + 1
     /\ SubSeq(r.cts, 1, Len(contacts)) = contacts
     /\ r.cts[Len(r.cts)] = [phone_number |-> md.from, name |-> name]
     /\ Len(r.db) = Len(messages) + 1
     /\ SubSeq(r.db, 1, Len(messages)) = messages
     /\ LET m == r.db[Len(r.db)]
        IN /\ m.direction = "incoming" /\ m.message_type = "text"
           /\ m.status = "received" /\ m.content = md.body
           /\ m.message_id = md.id /\ m.from_number = md.from
           /\ m.contact = md.from

\* C17 (as stated): an official text-message webhook for a from number with
\* no Contact creates one Contact whose name is the phone number, stores one
\* Message incoming/text/received with the text body as content, and is
\* answered 200.
C17_TextFromNewNumber ==
  \A request \in Requests :
    TextFromNewNumber(request) =>
      StoredTextFrom(request, webhook(messages, contacts, phone, request),
                     request.body.messages[1].from)

\* C17 (amended): the same, with the Contact named by the profile name that
\* value.contacts[] of the request gives for the number, and by the phone
\* number when the request gives none.
C17_TextFromNewNumberNamed ==
  \A request \in Requests :
    TextFromNewNumber(request) =>
      LET n == request.body.messages[1].from
          name == IF ProfileName(request, n) # "" THEN ProfileName(request, n) ELSE n
      IN StoredTextFrom(request, webhook(messages, contacts, phone, request), name)

\* A text message from a new number was stored and its Contact was named by
\* the phone number.
C17_Witness ==
  /\ last.op = "webhook"
  /\ last.result = "200"
  /\ last.trace = <<"message:created">>
  /\ contacts = <<[phone_number |-> "40777777777", name |-> "40777777777"]>>
  /\ Len(messages) = 1
  /\ messages[1].direction = "incoming" /\ messages[1].message_type = "text"
  /\ messages[1].status = "received" /\ messages[1].content = "hi"


\* The WAHA request is a message event of this PhoneNumber's session whose
\* id is not stored yet.
NewWahaMessage(request) ==
  /\ request \in WahaMessages
  /\ phone.api_type = "waha" /\ phone.waha_session = request.session
  /\ ~Known(request.payload.id)

WahaMessageEvent(request) ==
  /\ request.method = "POST" /\ request.json
  /\ phone.api_type = "waha" /\ phone.waha_session = request.session
  /\ request.event = "message"

\* The number the WAHA parser looks the Contact up by.
CounterpartOf(request) ==
  clean_phone_number(
    IF request.payload.fromMe
    THEN (IF request.payload.to # "" THEN request.payload.to ELSE request.me)
    ELSE request.payload.from)

\* C19: the WAHA parser creates a Contact only for incoming messages: an
\* echo (fromMe true) never adds or changes a Contact, whatever numbers the
\* payload holds, and the echoed Message is stored with the Contact that
\* exists for the counterpart, or with none.
C19_NoContactForEcho ==
  \A request \in WahaRequests :
    WahaMessageEvent(request) /\ request.payload.fromMe =>
      LET r == waha_webhook(messages, contacts, phone, request)
          j == find_contact(contacts, CounterpartOf(request))
      IN /\ r.cts = contacts
         /\ Len(r.db) > Len(messages) =>
              r.db[Len(r.db)].contact = (IF j # 0 THEN contacts[j].phone_number ELSE None)
         /\ ~Known(request.payload.id) => Len(r.db) = Len(messages) + 1

\* An echo was stored while its counterpart had no Contact: the Message has
\* no Contact and none was created.
C19_Witness ==
  /\ last.op = "waha_webhook"
  /\ last.result = "200"
  /\ contacts = <<>>
  /\ Len(messages) = 1
  /\ messages[1].direction = "outgoing"
  /\ messages[1].contact = None


C21_ContactPhoneValid ==
  \A j \in DOMAIN contacts : validate_phone_number(contacts[j].phone_number)

\* An inbound message stored a Contact whose number has five digits.
C21_Witness ==
  /\ last.op = "webhook"
  /\ last.result = "200"
  /\ \E j \in DOMAIN contacts : contacts[j].phone_number = "12345"

\* The part of the claim about digits: every stored phone_number is a
\* string of digits.
ContactPhoneDigitsOnly ==
  \A j \in DOMAIN contacts : contacts[j].phone_number \in DigitStrings


\* C22: every Contact lookup normalizes its input as persistence does: for
\* every number that normalizes to the number of a stored Contact,
\* find_by_phone, the get_or_create of the outbound path and the lookups of
\* the inbound path resolve to that Contact instead of trying to create one.
C22_LookupNormalizes ==
  \A n \in RawNumbers : \A j \in DOMAIN contacts :
    normalize_phone_number(n) = contacts[j].phone_number =>
      /\ find_by_phone(contacts, n) = j
      /\ get_or_create(contacts, n, n) = [cts |-> contacts, raised |-> FALSE]
      /\ process_contact(contacts, [wa_id |-> n, profile_name |-> ""])
           = [cts |-> contacts, raised |-> FALSE]
      /\ ~process_message(messages, contacts, phone,
                          MessagePayload("wamid.9", n, "1700000000", "text", TRUE, "hi")).raised

\* A webhook request gave the number of a stored Contact with a leading
\* plus: the lookup missed, the create hit the unique number, and the
\* request was answered 500.
C22_Witness ==
  /\ last.op = "webhook"
  /\ last.result = "500"
  /\ \E i \in DOMAIN last.trace : last.trace[i] = "contact:IntegrityError"
  /\ \E j \in DOMAIN contacts : contacts[j].phone_number = "40777777777"

\* The part of the claim about find_by_phone: it finds the Contact of every
\* number that normalizes to a stored one.
FindByPhoneNormalizes ==
  \A n \in RawNumbers : \A j \in DOMAIN contacts :
    normalize_phone_number(n) = contacts[j].phone_number => find_by_phone(contacts, n) = j


\* The Template rows stored under a key.
TemplatesOf(tpls, name, language) ==
  { j \in DOMAIN tpls : tpls[j].name = name /\ tpls[j].language = language }

\* The import of template_data is an upsert on its key: the rows of the
\* other keys are as before, and the key has one row, holding the entry.
Upserted(tpls, template_data) ==
  LET after == from_api_response(tpls, template_data).tpls
      key == TemplatesOf(after, template_data.name, language_of(template_data))
  IN /\ Cardinality(key) = 1
     /\ Len(after) = Len(tpls)
          + (IF TemplatesOf(tpls, template_data.name, language_of(template_data)) = {}
             THEN 1 ELSE 0)
     /\ \A j \in DOMAIN tpls : j \notin key => after[j] = tpls[j]
     /\ \A j \in key : /\ after[j].template_id = template_data.id
                       /\ template_data.body # None => after[j].body_text = template_data.body

\* C23: the template import is an upsert keyed on (phone_number, name,
\* language): the table never holds two Templates with the same name and
\* language, importing an entry adds or updates the one row of its key, and
\* importing the same entry twice leaves the table as importing it once.
C23_TemplateUpsert ==
  /\ \A i \in DOMAIN templates, j \in DOMAIN templates :
       templates[i].name = templates[j].name /\ templates[i].language = templates[j].language
         => i = j
  /\ \A template_data \in TemplateEntries :
       template_data.name # None =>
         /\ Upserted(templates, template_data)
         /\ from_api_response(from_api_response(templates, template_data).tpls, template_data)
              = from_api_response(templates, template_data)

\* A fetch imported two entries of the same key and the table holds the
\* one Template of that key, with the values of the second entry.
C23_Witness ==
  /\ last.op = "fetch_templates"
  /\ last.result = "list"
  /\ Len(last.trace) = 3
  /\ Len(templates) = 1
  /\ templates[1].status = "PAUSED"
  /\ templates[1].body_text = "Buna"


\* The status entries with a non-empty errors array for a stored message.
ErrorStatuses(db) ==
  { status_data \in StatusPayloads :
      /\ status_data.errors \notin {None, "[]"}
      /\ status_disposition(db, status_data) = "status:updated" }

\* C24: after a status entry with a non-empty errors array for an existing
\* message, the stored message's error_code and error_message are the code
\* and the title of the first error, and metadata holds the errors.
C24_FirstErrorStored ==
  \A status_data \in ErrorStatuses(messages) :
    LET after == process_status_update(messages, status_data)
        pk == get_by_message_id(messages, status_data.id)
    IN /\ after[pk].error_code = "131026"
       /\ after[pk].error_message = "Message undeliverable"
       /\ after[pk].metadata.errors = status_data.errors

\* A status webhook with an errors array was processed for the stored
\* message: metadata holds the errors and the error columns do not.
C24_Witness ==
  /\ last.op = "webhook"
  /\ last.result = "200"
  /\ \E k \in DOMAIN last.trace : last.trace[k] = "status:updated"
  /\ \E pk \in DOMAIN messages :
       /\ messages[pk].metadata.errors = "[131026]"
       /\ messages[pk].error_code # "131026"

\* The part of the claim about metadata: the errors of the entry are stored
\* under metadata.
MetadataErrorsStored ==
  \A status_data \in ErrorStatuses(messages) :
    process_status_update(messages, status_data)
      [get_by_message_id(messages, status_data.id)].metadata.errors = status_data.errors


\* C25: in every reachable state the status of every Message is one of
\* pending, received, sent, delivered, read and failed, whatever dispatches,
\* retries and status webhooks ran and whatever status string they carried.
C25_StatusInChoices ==
  \A pk \in DOMAIN messages : messages[pk].status \in STATUS_CHOICES

\* A status webhook carried a status string outside the choices for the
\* stored message, and the Message holds that string.
C25_Witness ==
  /\ last.op = "webhook"
  /\ last.result = "200"
  /\ \E k \in DOMAIN last.trace : last.trace[k] = "status:updated"
  /\ \E pk \in DOMAIN messages : messages[pk].status = "deleted"


\* C26: in every reachable state the message_type of every Message is one
\* of text, image, audio, video, document, location, template, button and
\* interactive, whichever parser stored it and whatever type the inbound
\* entry had.
C26_TypeInChoices ==
  \A pk \in DOMAIN messages : messages[pk].message_type \in MESSAGE_TYPE_CHOICES

\* The official webhook stored an inbound sticker as a Message of type
\* sticker.
C26_Witness ==
  /\ last.op = "webhook"
  /\ last.result = "200"
  /\ \E pk \in DOMAIN messages :
       /\ messages[pk].direction = "incoming"
       /\ messages[pk].message_type = "sticker"


\* The PhoneNumber has the credentials send_message asks for.
HasCredentials(p) ==
  /\ is_official_api(p) => p.access_token
  /\ is_waha_api(p) => waha_credentials(p)

\* C27: send_message with valid credentials and a text gets or creates the
\* Contact of the number, creates exactly one outgoing Message for it and
\* returns that Message; with missing credentials it raises ValueError and
\* creates no Contact and no Message.
C27_SendMessage ==
  [][ last'.op = "send_message" =>
        IF HasCredentials(phone)
        THEN /\ last'.result = "Message"
             /\ Len(messages') = Len(messages) + 1
             /\ messages'[Len(messages')].direction = "outgoing"
             /\ messages'[Len(messages')].message_type = "text"
             /\ find_contact(contacts', messages'[Len(messages')].contact) # 0
        ELSE /\ last'.result = "ValueError"
             /\ messages' = messages
             /\ contacts' = contacts ]_vars

\* send_message was called with credentials and a text for a new number:
\* the Contact exists, no Message does, and TypeError left the method.
C27_Witness ==
  /\ last.op = "send_message"
  /\ last.result = "TypeError"
  /\ HasCredentials(phone)
  /\ contacts # <<>>
  /\ messages = <<>>

\* The part of the claim about missing credentials: ValueError leaves
\* send_message before a Contact or a Message is created.
MissingCredentialsRaiseFirst ==
  [][ last'.op = "send_message" /\ ~HasCredentials(phone) =>
        last'.result = "ValueError" /\ messages' = messages /\ contacts' = contacts ]_vars


\* The outgoing messages the provider accepted: their status is sent,
\* delivered or read.
AlreadySent(db) ==
  { pk \in DOMAIN db : /\ db[pk].direction = "outgoing"
                       /\ db[pk].status \in {"sent", "delivered", "read"} }

\* The handler with this trace saved the message as pending or sent a
\* request to a backend.
ResetOrSent(trace) ==
  \E k \in DOMAIN trace : trace[k] \in {"save:pending", "http"}

\* C28: retry_send, called directly or by the admin's retry action, on an
\* outgoing message whose status is sent, delivered or read never resets it
\* to pending and never sends it again: the row stays as it is.
C28_NoResendOfSent ==
  \A pk \in AlreadySent(messages), o \in StatusOutcomes :
    /\ ~ResetOrSent(retry_send(messages, pk, phone, o).trace)
    /\ retry_send(messages, pk, phone, o).db = messages
    /\ ~ResetOrSent(retry_sending_messages(messages, <<pk>>, phone, <<o>>).trace)
    /\ retry_sending_messages(messages, <<pk>>, phone, <<o>>).db = messages

\* A message the provider had reported as delivered was retried: it was
\* saved as pending and sent to the backend again.
C28_Witness ==
  /\ last.op = "retry"
  /\ last.pk \in DOMAIN messages
  /\ messages[last.pk].delivered_at # NoTime
  /\ \E k \in DOMAIN last.trace : last.trace[k] = "save:pending"
  /\ \E k \in DOMAIN last.trace : last.trace[k] = "http"


\* Row i after process_message_for_sending sent it with no other dispatch
\* running.
DispatchedAlone(i) ==
  process_message_for_sending(Ctx(TwoPending, TwoPending[i], phone, procs[i].o),
                              i, phone, procs[i].o)

\* C29: when two different pending outgoing messages are dispatched at the
\* same time, under every interleaving the final status and message_id of
\* each are those of dispatching it alone with its own backend outcome.
C29_DispatchesIndependent ==
  \A i \in DOMAIN procs :
    procs[i].pc = "done" =>
      /\ messages[i].status = DispatchedAlone(i).db[i].status
      /\ messages[i].message_id = DispatchedAlone(i).db[i].message_id
      /\ procs[i].result = DispatchedAlone(i).result

\* The backend accepted both messages without naming an id: one is stored
\* as sent under the empty message_id and the other as failed.
C29_Witness ==
  /\ \A i \in Dispatchers : procs[i].pc = "done" /\ answer(phone, procs[i].o) = "sent"
  /\ \E i \in Dispatchers : messages[i].status = "failed"
  /\ \E i \in Dispatchers : messages[i].status = "sent"

\* The part of the claim about rows: a step of one dispatch leaves the row
\* of the other as it is.
RowsIsolated ==
  [][ \A i \in Dispatchers : procs'[i] = procs[i] => messages'[i] = messages[i] ]_vars

\* The ids the backend gave the two messages differ, or it did not accept
\* both.
DistinctAnswers ==
  \/ \E i \in Dispatchers : answer(phone, procs[i].o) # "sent"
  \/ answer_id(phone, procs[1].o) # answer_id(phone, procs[2].o)

\* The claim for backend answers that do not give both messages one id.
IndependentUnlessSameId == DistinctAnswers => C29_DispatchesIndependent


\* C30: when two webhook requests carrying the same inbound message_id of
\* the same new sender are processed at the same time, under every
\* interleaving of their lookups and inserts the tables hold at most one
\* Message with that message_id and at most one Contact with that number.
C30_AtMostOneMessageAndContact ==
  /\ Cardinality({ pk \in DOMAIN messages :
                     messages[pk].message_id = RedeliveredMessage.id }) <= 1
  /\ Cardinality({ j \in DOMAIN contacts :
                     contacts[j].phone_number = RedeliveredMessage.from }) <= 1

\* Both requests found no Contact and no Message before either inserted:
\* both ran to their end, one stored the Message and the other was
\* answered 500, and the tables hold one Message and one Contact.
C30_Witness ==
  /\ \A i \in Deliveries : procs[i].pc = "done"
  /\ \E i \in Deliveries : procs[i].result = "200"
  /\ \E i \in Deliveries : procs[i].result = "500"
  /\ Len(messages) = 1
  /\ Len(contacts) = 1

====
